---- MODULE Spec2Model ----
(***************************************************************************)
(* interactive-mermaid: the position tracker (core/node-tracker.ts), the   *)
(* part of the SVG parser that builds the edges and groups it tracks       *)
(* (core/svg-parser.ts), the drag handler, the public instance and the     *)
(* position serializer.                                                    *)
(*                                                                         *)
(* Numbers.  Coordinates are fixed-point: one SVG user unit is 4 ticks, so *)
(* the tolerances of the code (0.5 and 1 unit) are 2 and 4 ticks and a     *)
(* position can lie strictly inside a tolerance.  Sums, differences and    *)
(* comparisons are exact.  Math.hypot is exact on axis-aligned segments    *)
(* and rounded down to a tick on diagonal ones.  The arc-length fraction t *)
(* of a label is the exact rational tn/td, and a label's translation is    *)
(* kept as a numerator pair over that denominator.                         *)
(***************************************************************************)
EXTENDS Integers, Sequences, FiniteSets, TLC

VARIABLES
    nodes,              \* NodeTracker.nodes: the tracked ParsedNode objects, in Map order
    originalPositions,  \* NodeTracker.originalPositions: id -> {x, y}
    edges,              \* NodeTracker.edges: the ParsedEdge objects
    groups,             \* NodeTracker.groups: the ParsedGroup objects
    dom,                \* the attributes of every SVG element the scene refers to
    lastOp,             \* the tracker operation (or handler step) that ran last
    stage,              \* "parsed", then "moved" (one updateNodePosition), then "applied"
                        \* (one applyPositionUpdates after it), and "later" from then on
    handler,            \* DragHandler: listeners, options copy, activeNode, isDragging, dragOffset
    inst,               \* InteractiveMermaid: options copy, dragHandler, isDestroyed, source
    storage,            \* localStorage: key -> stored layout
    calls,              \* the callbacks the last handler step ran, in order
    closure,            \* makeInteractive: the caller's options object and originalOnDragEnd
    steps,              \* the number of calls made on the tracker or events delivered so far
    parsed,             \* what parse() returned, kept for comparison: the edges, or for
                        \* each document parsed so far the identifiers of its first parse
    parser,             \* the edgeCounter of each SvgParser
    pressed,            \* for the mouse and for touch: the nodes the pointer went down on
                        \* since it was last released
    call                \* the last call: its arguments, what it returned or threw, and
                        \* the tracker methods it ran, in order

vars == <<nodes, originalPositions, edges, groups, dom, lastOp, stage, handler, inst, storage,
          calls, closure, steps, parsed, parser, pressed, call>>

trackerVars == <<nodes, originalPositions, edges, groups, dom>>
uiVars == <<handler, inst, storage, calls, closure, pressed>>

----------------------------------------------------------------------------
(* Arithmetic *)

Abs(n) == IF n < 0 THEN -n ELSE n

Min(a, b) == IF a <= b THEN a ELSE b

Max(a, b) == IF a >= b THEN a ELSE b

RECURSIVE SqrtSearch(_, _, _)
SqrtSearch(n, lo, hi) ==
    \* the largest r in lo..hi with r * r <= n
    IF lo >= hi THEN lo
    ELSE LET mid == (lo + hi + 1) \div 2
         IN  IF mid * mid <= n THEN SqrtSearch(n, mid, hi)
                               ELSE SqrtSearch(n, lo, mid - 1)

Hypot(dx, dy) ==
    IF dx = 0 THEN Abs(dy)
    ELSE IF dy = 0 THEN Abs(dx)
    ELSE SqrtSearch(dx * dx + dy * dy, 0, Abs(dx) + Abs(dy))

Pt(px, py) == [x |-> px, y |-> py]

addPoint(a, b) == Pt(a.x + b.x, a.y + b.y)

\* F applied to the value of v: v is evaluated once and F sees the result, as a
\* statement sees the variable an earlier statement assigned
With(v, F(_)) == CHOOSE r \in {F(x) : x \in {v}} : TRUE

----------------------------------------------------------------------------
(* Tolerances and thresholds of the code, in ticks *)

DedupTol == 2

AxisTol == 4

NodeSlack == 120

LabelMaxDist == 120

DecoMaxDist == 140

BBoxPad == 4

----------------------------------------------------------------------------
(* SVG elements.  An attribute is [has, val]; a transform value is a       *)
(* sequence of tokens: the opaque transform of the input document, or a    *)
(* translate(x, y) with x and y numerators over den.                       *)

NoAttr == [has |-> FALSE, val |-> <<>>]

Attr(v) == [has |-> TRUE, val |-> v]

OrigToken == [k |-> "orig", x |-> 0, y |-> 0, den |-> 1]

\* `translate(${dx}, ${dy})` for the numbers dx / den and dy / den: whole numbers
\* of ticks print the same whatever they were computed from
TranslateToken(dx, dy, den) ==
    IF dx % den = 0 /\ dy % den = 0
    THEN [k |-> "translate", x |-> dx \div den, y |-> dy \div den, den |-> 1]
    ELSE [k |-> "translate", x |-> dx, y |-> dy, den |-> den]

\* element.getAttribute(name) || ''
AttrOrEmpty(a) == IF a.has THEN a.val ELSE <<>>

Element(tag, geom, transform) ==
    [tag |-> tag, geom |-> geom, transform |-> transform, dataOriginal |-> NoAttr]

\* applyTranslate appending to the element's current transform, not to the stored one
applyTranslateOnCurrent(el, dx, dy, den) ==
    IF dx = 0 /\ dy = 0 THEN el
    ELSE [el EXCEPT !.transform = Attr(AttrOrEmpty(@) \o <<TranslateToken(dx, dy, den)>>)]

applyTranslate(el, dx, dy, den) ==
    IF dx = 0 /\ dy = 0
    THEN IF AttrOrEmpty(el.dataOriginal) # <<>>
         THEN [el EXCEPT !.transform = Attr(AttrOrEmpty(el.dataOriginal))]
         ELSE [el EXCEPT !.transform = NoAttr]
    ELSE LET stored   == IF el.dataOriginal.has THEN el.dataOriginal
                         ELSE Attr(AttrOrEmpty(el.transform))
             original == AttrOrEmpty(stored)
         IN  [el EXCEPT !.dataOriginal = stored,
                        !.transform = Attr(original \o <<TranslateToken(dx, dy, den)>>)]

\* The translate(...) the element's transform ends with: <<>> when it has none.
TranslationOf(el) ==
    LET v == AttrOrEmpty(el.transform)
    IN  IF v # <<>> /\ v[Len(v)].k = "translate"
        THEN <<v[Len(v)].x, v[Len(v)].y, v[Len(v)].den>>
        ELSE <<>>

----------------------------------------------------------------------------
(* NodeTracker: the pure parts of its methods.  ns is the node list, e an  *)
(* edge, d the element table.                                              *)

None == 0

\* No button of the mouse is held down and no finger is on the screen
NotPressed == [mouse |-> {}, touch |-> {}]

HasNode(ns, id) == \E i \in DOMAIN ns : ns[i].id = id

\* this.nodes.get(id), for an id the map holds
GetNode(ns, id) == ns[CHOOSE i \in DOMAIN ns : ns[i].id = id]

Center(n) == Pt(n.x + n.width \div 2, n.y + n.height \div 2)

Last(s) == s[Len(s)]

\* updateEdgeEndpoints moving the source end only
updateEdgeEndpointsSourceOnly(e, ns) ==
    IF Len(e.points) < 2 \/ e.sourceNodeId = None \/ ~HasNode(ns, e.sourceNodeId) THEN e
    ELSE LET sc == Center(GetNode(ns, e.sourceNodeId))
             sOff == IF e.sourceOffset = <<>>
                     THEN Pt(e.points[1].x - sc.x, e.points[1].y - sc.y)
                     ELSE e.sourceOffset[1]
         IN  [e EXCEPT !.sourceOffset = <<sOff>>, !.points[1] = addPoint(sc, sOff)]

updateEdgeEndpoints(e, ns) ==
    IF Len(e.points) < 2 THEN e
    ELSE
      LET first == e.points[1]
          last  == Last(e.points)
          srcOn == e.sourceNodeId # None /\ HasNode(ns, e.sourceNodeId)
          tgtOn == e.targetNodeId # None /\ HasNode(ns, e.targetNodeId)
          sc    == Center(GetNode(ns, e.sourceNodeId))
          tc    == Center(GetNode(ns, e.targetNodeId))
          sOff  == IF e.sourceOffset = <<>> THEN Pt(first.x - sc.x, first.y - sc.y)
                   ELSE e.sourceOffset[1]
          tOff  == IF e.targetOffset = <<>> THEN Pt(last.x - tc.x, last.y - tc.y)
                   ELSE e.targetOffset[1]
          e1    == IF srcOn
                   THEN [e EXCEPT !.sourceOffset = <<sOff>>,
                                  !.points[1] = addPoint(sc, sOff)]
                   ELSE e
      IN  IF tgtOn
          THEN [e1 EXCEPT !.targetOffset = <<tOff>>,
                          !.points[Len(e.points)] = addPoint(tc, tOff)]
          ELSE e1

\* maintainOrthogonalEdge returning at once
maintainOrthogonalEdgeSkipped(e, tag) == e

maintainOrthogonalEdge(e, tag) ==
    IF tag # "polyline" \/ Len(e.points) < 2 THEN e
    ELSE IF Len(e.points) = 2
    THEN LET a  == e.points[1]
             b  == e.points[2]
             dx == Abs(b.x - a.x)
             dy == Abs(b.y - a.y)
             verticalFirst == IF e.firstSegmentVertical # "unset"
                              THEN e.firstSegmentVertical = "true"
                              ELSE dy >= dx
             bend == IF verticalFirst THEN Pt(a.x, b.y) ELSE Pt(b.x, a.y)
         IN  IF dx >= AxisTol /\ dy >= AxisTol
             THEN [e EXCEPT !.points = <<a, bend, b>>,
                            !.firstSegmentVertical = IF verticalFirst THEN "true" ELSE "false",
                            !.lastSegmentVertical = IF verticalFirst THEN "false" ELSE "true"]
             ELSE e
    ELSE LET n     == Len(e.points)
             start == e.points[1]
             end   == e.points[n]
             \* p1 and pN are the same object when n = 3: the writes are in sequence
             pts1  == IF e.firstSegmentVertical = "true"
                      THEN [e.points EXCEPT ![2].x = start.x]
                      ELSE IF e.firstSegmentVertical = "false"
                      THEN [e.points EXCEPT ![2].y = start.y]
                      ELSE e.points
             pts2  == IF e.lastSegmentVertical = "true"
                      THEN [pts1 EXCEPT ![n - 1].x = end.x]
                      ELSE IF e.lastSegmentVertical = "false"
                      THEN [pts1 EXCEPT ![n - 1].y = end.y]
                      ELSE pts1
         IN  [e EXCEPT !.points = pts2]

RECURSIVE Dedupe(_, _, _)
Dedupe(points, i, deduped) ==
    IF i > Len(points) THEN deduped
    ELSE LET prev == Last(deduped)
             curr == points[i]
         IN  IF Abs(curr.x - prev.x) < DedupTol /\ Abs(curr.y - prev.y) < DedupTol
             THEN Dedupe(points, i + 1, deduped)
             ELSE With(Append(deduped, curr), LAMBDA next : Dedupe(points, i + 1, next))

RECURSIVE DropCollinear(_, _, _)
DropCollinear(deduped, i, out) ==
    IF i > Len(deduped) - 1 THEN out
    ELSE LET a == Last(out)
             b == deduped[i]
             c == deduped[i + 1]
             sameX == Abs(a.x - b.x) < AxisTol /\ Abs(b.x - c.x) < AxisTol
             sameY == Abs(a.y - b.y) < AxisTol /\ Abs(b.y - c.y) < AxisTol
         IN  IF sameX \/ sameY
             THEN DropCollinear(deduped, i + 1, out)
             ELSE With(Append(out, b), LAMBDA next : DropCollinear(deduped, i + 1, next))

simplifyPoints(points) ==
    IF Len(points) < 2 THEN points
    ELSE With(Dedupe(points, 2, <<points[1]>>),
              LAMBDA deduped :
                  IF Len(deduped) < 3 THEN deduped
                  ELSE Append(DropCollinear(deduped, 2, <<deduped[1]>>), Last(deduped)))

\* dx < 1 ? true : dy < 1 ? false : dy >= dx
SegmentVertical(a, b) ==
    LET dx == Abs(b.x - a.x)
        dy == Abs(b.y - a.y)
    IN  IF dx < AxisTol THEN "true"
        ELSE IF dy < AxisTol THEN "false"
        ELSE IF dy >= dx THEN "true" ELSE "false"

recomputeEdgeHints(e) ==
    IF Len(e.points) < 2 THEN e
    ELSE [e EXCEPT !.firstSegmentVertical = SegmentVertical(e.points[1], e.points[2]),
                   !.lastSegmentVertical =
                       SegmentVertical(e.points[Len(e.points) - 1], Last(e.points))]

RECURSIVE SumLens(_, _)
\* the lengths of the segments before segment i, summed
SumLens(points, i) ==
    IF i <= 1 THEN 0
    ELSE SumLens(points, i - 1)
         + Hypot(points[i].x - points[i - 1].x, points[i].y - points[i - 1].y)

RECURSIVE WalkPolyline(_, _, _, _)
\* the loop of pointOnPolyline from segment i on; target is a numerator over td
WalkPolyline(points, i, target, td) ==
    IF i > Len(points) - 1 THEN Pt(Last(points).x * td, Last(points).y * td)
    ELSE LET a   == points[i]
             b   == points[i + 1]
             len == Hypot(b.x - a.x, b.y - a.y)
             acc == SumLens(points, i)
         IN  IF (acc + len) * td >= target
             THEN IF len = 0 THEN Pt(a.x * td, a.y * td)
                  ELSE Pt(a.x * td + ((b.x - a.x) * (target - acc * td)) \div len,
                          a.y * td + ((b.y - a.y) * (target - acc * td)) \div len)
             ELSE WalkPolyline(points, i + 1, target, td)

\* pointOnPolyline(points, tn / td), as a numerator pair over td
pointOnPolyline(points, tn, td) ==
    IF Len(points) = 0 THEN Pt(0, 0)
    ELSE IF Len(points) = 1 THEN Pt(points[1].x * td, points[1].y * td)
    ELSE LET clampedT == Max(0, Min(td, tn))
             total    == SumLens(points, Len(points))
         IN  IF total = 0 THEN Pt(points[1].x * td, points[1].y * td)
             ELSE WalkPolyline(points, 1, total * clampedT, td)

RECURSIVE FlattenPoints(_)
\* points.map(p => `${p.x},${p.y}`).join(' '): the coordinate list of a polyline
FlattenPoints(points) ==
    IF points = <<>> THEN <<>>
    ELSE <<points[1].x, points[1].y>> \o FlattenPoints(Tail(points))

updateEdgeElement(d, e) ==
    LET tag == d[e.element].tag
    IN  IF tag = "polyline"
        THEN [d EXCEPT ![e.element].geom = FlattenPoints(e.points)]
        ELSE IF tag = "line" /\ Len(e.points) >= 2
        THEN [d EXCEPT ![e.element].geom =
                 <<e.points[1].x, e.points[1].y, Last(e.points).x, Last(e.points).y>>]
        ELSE d

\* The translation updateEdgeLabel computes, as numerators over labelInfo.td
LabelDelta(e) ==
    LET li == e.labelInfo
        p  == pointOnPolyline(e.points, li.tn, li.td)
    IN  Pt(p.x + (li.offset.x - li.anchor.x) * li.td,
           p.y + (li.offset.y - li.anchor.y) * li.td)

\* updateEdgeLabel moving the text and leaving the background where it was
updateEdgeLabelTextOnly(d, e) ==
    IF ~e.hasLabelInfo \/ e.labelElement = None THEN d
    ELSE With(LabelDelta(e),
              LAMBDA dl : [d EXCEPT ![e.labelElement] =
                              applyTranslate(@, dl.x, dl.y, e.labelInfo.td)])

updateEdgeLabel(d, e) ==
    IF ~e.hasLabelInfo THEN d
    ELSE IF e.labelElement = None /\ e.labelBackground = None THEN d
    ELSE With(LabelDelta(e),
              LAMBDA dl :
                  LET d1 == IF e.labelBackground # None
                            THEN [d EXCEPT ![e.labelBackground] =
                                     applyTranslate(@, dl.x, dl.y, e.labelInfo.td)]
                            ELSE d
                  IN  IF e.labelElement # None
                      THEN [d1 EXCEPT ![e.labelElement] =
                               applyTranslate(@, dl.x, dl.y, e.labelInfo.td)]
                      ELSE d1)

\* The translation updateEdgeDecorations computes for one decoration
\* The displacement of a decoration, taken from the first point of the edge
\* whatever end the decoration is at
DecorationDeltaFromSource(e, deco) ==
    Pt(e.points[1].x + deco.offset.x - deco.anchor.x,
       e.points[1].y + deco.offset.y - deco.anchor.y)

DecorationDelta(e, deco) ==
    LET ep == IF deco.endpoint = "source" THEN e.points[1] ELSE Last(e.points)
    IN  Pt(ep.x + deco.offset.x - deco.anchor.x, ep.y + deco.offset.y - deco.anchor.y)

RECURSIVE TranslateDecorations(_, _, _)
TranslateDecorations(d, e, i) ==
    IF i > Len(e.decorations) THEN d
    ELSE LET deco == e.decorations[i]
             dl   == DecorationDelta(e, deco)
         IN  With([d EXCEPT ![deco.element] = applyTranslate(@, dl.x, dl.y, 1)],
                  LAMBDA d1 : TranslateDecorations(d1, e, i + 1))

updateEdgeDecorations(d, e) ==
    IF Len(e.decorations) = 0 \/ Len(e.points) < 2 THEN d
    ELSE TranslateDecorations(d, e, 1)

RECURSIVE TranslateElements(_, _, _, _, _)
TranslateElements(d, els, i, dx, dy) ==
    IF i > Len(els) THEN d
    ELSE With([d EXCEPT ![els[i]] = applyTranslate(@, dx, dy, 1)],
              LAMBDA d1 : TranslateElements(d1, els, i + 1, dx, dy))

\* Both branches of applyNodeTransform treat an element as applyTranslate does.
applyNodeTransform(d, node) ==
    TranslateElements(d, node.elements, 1, node.x - node.originalX, node.y - node.originalY)

RECURSIVE TransformNodes(_, _, _)
TransformNodes(d, ns, i) ==
    IF i > Len(ns) THEN d
    ELSE With(applyNodeTransform(d, ns[i]), LAMBDA d1 : TransformNodes(d1, ns, i + 1))

\* One iteration of the loop of applyEdgeUpdates: the edge, then the elements
EdgeUpdated(e, ns, d) ==
    With(updateEdgeEndpoints(e, ns), LAMBDA e1 : maintainOrthogonalEdge(e1, d[e.element].tag))

EdgeWritten(d, e) ==
    With(updateEdgeElement(d, e),
         LAMBDA d1 : With(updateEdgeLabel(d1, e), LAMBDA d2 : updateEdgeDecorations(d2, e)))

RECURSIVE WriteEdges(_, _, _)
WriteEdges(d, es, i) ==
    IF i > Len(es) THEN d
    ELSE With(EdgeWritten(d, es[i]), LAMBDA d1 : WriteEdges(d1, es, i + 1))

RECURSIVE EdgesUpdated(_, _, _, _)
\* the edges from the i-th on, each as the loop of applyEdgeUpdates leaves it
EdgesUpdated(es, ns, d, i) ==
    IF i > Len(es) THEN <<>>
    ELSE <<EdgeUpdated(es[i], ns, d)>> \o EdgesUpdated(es, ns, d, i + 1)

\* applyEdgeUpdates(): the edges and the element table it leaves
applyEdgeUpdates(es, ns, d) ==
    With(EdgesUpdated(es, ns, d, 1),
         LAMBDA es1 : [edges |-> es1, dom |-> WriteEdges(d, es1, 1)])

\* applyPositionUpdates(): node transforms first, then the edges
applyPositionUpdates(es, ns, d) ==
    With(TransformNodes(d, ns, 1), LAMBDA d1 : applyEdgeUpdates(es, ns, d1))

\* One iteration of the loop of polishEdges
EdgePolished(e, ns, d) ==
    With(EdgeUpdated(e, ns, d),
         LAMBDA e1 : With(simplifyPoints(e1.points),
                          LAMBDA pts : recomputeEdgeHints([e1 EXCEPT !.points = pts])))

RECURSIVE EdgesPolished(_, _, _, _)
EdgesPolished(es, ns, d, i) ==
    IF i > Len(es) THEN <<>>
    ELSE <<EdgePolished(es[i], ns, d)>> \o EdgesPolished(es, ns, d, i + 1)

polishEdges(es, ns, d) ==
    With(EdgesPolished(es, ns, d, 1),
         LAMBDA es1 : [edges |-> es1, dom |-> WriteEdges(d, es1, 1)])

\* The members of a group the tracker knows, in membership order
RECURSIVE Members(_, _, _)
Members(ids, ns, i) ==
    IF i > Len(ids) THEN <<>>
    ELSE (IF HasNode(ns, ids[i]) THEN <<GetNode(ns, ids[i])>> ELSE <<>>)
         \o Members(ids, ns, i + 1)

SetMin(S) == CHOOSE m \in S : \A o \in S : m <= o

SetMax(S) == CHOOSE m \in S : \A o \in S : m >= o

\* The box of the first member alone, padded
GroupBoxFirstMember(g, members) ==
    [x |-> members[1].x - g.padding.left, y |-> members[1].y - g.padding.top,
     width |-> members[1].width + g.padding.left + g.padding.right,
     height |-> members[1].height + g.padding.top + g.padding.bottom]

\* The box polishGroups computes for a group from its members' current boxes
GroupBox(g, members) ==
    LET I    == DOMAIN members
        minX == SetMin({members[i].x : i \in I})
        minY == SetMin({members[i].y : i \in I})
        maxX == SetMax({members[i].x + members[i].width : i \in I})
        maxY == SetMax({members[i].y + members[i].height : i \in I})
        newX == minX - g.padding.left
        newY == minY - g.padding.top
    IN  [x |-> newX, y |-> newY,
         width |-> maxX + g.padding.right - newX,
         height |-> maxY + g.padding.bottom - newY]

\* polishGroups leaving the header label where it was
polishGroupNoLabel(d, g, ns) ==
    With(Members(g.memberNodeIds, ns, 1),
         LAMBDA members :
             IF Len(members) = 0 THEN d
             ELSE With(GroupBox(g, members),
                       LAMBDA box :
                           LET d1 == [d EXCEPT ![g.outerRect].geom =
                                         <<box.x, box.y, box.width, box.height>>]
                           IN  IF box.width <= 0 \/ box.height <= 0 THEN d
                               ELSE IF g.headerRect # None
                               THEN [d1 EXCEPT ![g.headerRect].geom =
                                        <<box.x, box.y, box.width, @[4]>>]
                               ELSE d1))

\* One iteration of the loop of polishGroups
polishGroup(d, g, ns) ==
    With(Members(g.memberNodeIds, ns, 1),
         LAMBDA members :
             IF Len(g.memberNodeIds) = 0 \/ Len(members) = 0 THEN d
             ELSE With(GroupBox(g, members),
                       LAMBDA box :
                           LET off == IF g.labelOffset # <<>> THEN g.labelOffset[1]
                                      ELSE Pt(48, IF g.headerHeight > 0
                                                  THEN g.headerHeight \div 2 ELSE 56)
                               d1  == [d EXCEPT ![g.outerRect].geom =
                                          <<box.x, box.y, box.width, box.height>>]
                               d2  == IF g.headerRect # None
                                      THEN [d1 EXCEPT ![g.headerRect].geom =
                                               <<box.x, box.y, box.width,
                                                 IF g.headerHeight > 0
                                                 THEN g.headerHeight ELSE @[4]>>]
                                      ELSE d1
                               d3  == IF g.labelElement # None
                                      THEN [d2 EXCEPT ![g.labelElement].geom =
                                               <<box.x + off.x, box.y + off.y>>]
                                      ELSE d2
                           IN  IF box.width <= 0 \/ box.height <= 0 THEN d ELSE d3))

RECURSIVE polishGroupsAborting(_, _, _, _)
\* polishGroups returning at the first group it has nothing to do for
polishGroupsAborting(d, gs, ns, i) ==
    IF i > Len(gs) THEN d
    ELSE With(polishGroup(d, gs[i], ns),
              LAMBDA d1 : IF d1 = d THEN d ELSE polishGroupsAborting(d1, gs, ns, i + 1))

RECURSIVE polishGroups(_, _, _, _)
\* The loop of polishGroups: a group it skips is left as it is, the loop goes on
polishGroups(d, gs, ns, i) ==
    IF i > Len(gs) THEN d
    ELSE With(polishGroup(d, gs[i], ns), LAMBDA d1 : polishGroups(d1, gs, ns, i + 1))

\* polishLayout(): polishEdges(), then polishGroups()
polishLayout(es, ns, gs, d) ==
    With(polishEdges(es, ns, d),
         LAMBDA pe : [edges |-> pe.edges, dom |-> polishGroups(pe.dom, gs, ns, 1)])

\* updateNodePosition(id, x, y) answering true whatever the id
updateNodePositionReturnsTrue(ns, id) == "true"

\* What updateNodePosition(id, x, y) returns
updateNodePositionReturns(ns, id) == IF HasNode(ns, id) THEN "true" ELSE "false"

\* updateNodePosition(id, x, y) on the node list: unknown ids change nothing
updateNodePosition(ns, id, x, y) ==
    [i \in DOMAIN ns |-> IF ns[i].id = id THEN [ns[i] EXCEPT !.x = x, !.y = y] ELSE ns[i]]

----------------------------------------------------------------------------
(* SvgParser: how the edges and groups handed to the tracker are built.    *)
(* The document is the element table d plus the lists of elements the      *)
(* selectors return, in document order.                                    *)

pointInBBox(p, bbox, pad) ==
    /\ p.x >= bbox.x - pad
    /\ p.x <= bbox.x + bbox.width + pad
    /\ p.y >= bbox.y - pad
    /\ p.y <= bbox.y + bbox.height + pad

Dist2(p, q) == (p.x - q.x) * (p.x - q.x) + (p.y - q.y) * (p.y - q.y)

RECURSIVE UnflattenPoints(_)
\* parsePolylinePoints: the points attribute as a point list
UnflattenPoints(geom) ==
    IF Len(geom) < 2 THEN <<>>
    ELSE <<Pt(geom[1], geom[2])>> \o UnflattenPoints(Tail(Tail(geom)))

RECURSIVE findNodeAtPointInclusive(_, _, _)
\* A search that also takes a node whose reach the point lies exactly on
findNodeAtPointInclusive(point, ns, i) ==
    IF i > Len(ns) THEN None
    ELSE LET r == Max(ns[i].width, ns[i].height) \div 2 + NodeSlack
         IN  IF Dist2(point, Center(ns[i])) <= r * r THEN ns[i].id
             ELSE findNodeAtPointInclusive(point, ns, i + 1)

RECURSIVE findNodeAtPointFrom(_, _, _)
findNodeAtPointFrom(point, ns, i) ==
    IF i > Len(ns) THEN None
    ELSE LET r == Max(ns[i].width, ns[i].height) \div 2 + NodeSlack
         IN  IF Dist2(point, Center(ns[i])) < r * r THEN ns[i].id
             ELSE findNodeAtPointFrom(point, ns, i + 1)

findNodeAtPoint(point, ns) == findNodeAtPointFrom(point, ns, 1)

createEdge(id, element, points, ns) ==
    LET firstPoint   == points[1]
        lastPoint    == Last(points)
        sourceNodeId == findNodeAtPoint(firstPoint, ns)
        targetNodeId == findNodeAtPoint(lastPoint, ns)
        sc == Center(GetNode(ns, sourceNodeId))
        tc == Center(GetNode(ns, targetNodeId))
    IN  [id |-> id, element |-> element, points |-> points,
         sourceNodeId |-> sourceNodeId, targetNodeId |-> targetNodeId,
         sourceOffset |-> IF sourceNodeId # None
                          THEN <<Pt(firstPoint.x - sc.x, firstPoint.y - sc.y)>> ELSE <<>>,
         targetOffset |-> IF targetNodeId # None
                          THEN <<Pt(lastPoint.x - tc.x, lastPoint.y - tc.y)>> ELSE <<>>,
         firstSegmentVertical |-> SegmentVertical(points[1], points[2]),
         lastSegmentVertical |-> SegmentVertical(points[Len(points) - 1], lastPoint),
         hasLabelInfo |-> FALSE,
         labelInfo |-> [tn |-> 0, td |-> 1, offset |-> Pt(0, 0), anchor |-> Pt(0, 0)],
         labelElement |-> None, labelBackground |-> None,
         decorations |-> <<>>]

\* dist2 = -1 stands for Infinity
RECURSIVE ClosestFrom(_, _, _, _)
ClosestFrom(p, points, i, best) ==
    IF i > Len(points) - 1 THEN best
    ELSE LET a      == points[i]
             b      == points[i + 1]
             abx    == b.x - a.x
             aby    == b.y - a.y
             segLen == Hypot(abx, aby)
             len2   == abx * abx + aby * aby
             dot    == (p.x - a.x) * abx + (p.y - a.y) * aby
             dotc   == Max(0, Min(len2, dot))
             cp     == Pt(a.x + (abx * dotc) \div len2, a.y + (aby * dotc) \div len2)
             dist2  == Dist2(p, cp)
             better == best.dist2 = -1 \/ dist2 < best.dist2
             next   == IF better
                       THEN [closest |-> cp, dist2 |-> dist2,
                             along |-> best.total + (segLen * dotc) \div len2,
                             total |-> best.total + segLen]
                       ELSE [best EXCEPT !.total = best.total + segLen]
         IN  IF segLen = 0 THEN ClosestFrom(p, points, i + 1, best)
             ELSE With(next, LAMBDA nb : ClosestFrom(p, points, i + 1, nb))

\* closestPointOnPolyline, for a path of at least two points: t is along / total
closestPointOnPolyline(p, points) ==
    ClosestFrom(p, points, 1, [closest |-> points[1], dist2 |-> -1, along |-> 0, total |-> 0])

RECURSIVE NearestEdgeFrom(_, _, _, _)
\* the loop of findNearestEdge: best is an edge index (0: none) with its result
NearestEdgeFrom(es, p, i, best) ==
    IF i > Len(es) THEN best
    ELSE With(closestPointOnPolyline(p, es[i].points),
              LAMBDA res :
                  LET better == best.edge = 0
                                \/ (res.dist2 # -1
                                    /\ (best.res.dist2 = -1 \/ res.dist2 < best.res.dist2))
                  IN  With(IF better THEN [edge |-> i, res |-> res] ELSE best,
                           LAMBDA nb : NearestEdgeFrom(es, p, i + 1, nb)))

\* findNearestEdge: the index of the matching edge and the closest point, or edge 0
findNearestEdge(es, p) ==
    With(NearestEdgeFrom(es, p, 1, [edge |-> 0, res |-> [dist2 |-> -1]]),
         LAMBDA best :
             IF best.edge # 0 /\ best.res.dist2 # -1
                /\ best.res.dist2 <= LabelMaxDist * LabelMaxDist
             THEN best
             ELSE [edge |-> 0, res |-> [dist2 |-> -1]])

LabelInfoAt(match, anchor) ==
    [tn |-> IF match.res.total = 0 THEN 0 ELSE match.res.along,
     td |-> IF match.res.total = 0 THEN 1 ELSE match.res.total,
     offset |-> Pt(anchor.x - match.res.closest.x, anchor.y - match.res.closest.y),
     anchor |-> anchor]

RectBox(geom) == [x |-> geom[1], y |-> geom[2], width |-> geom[3], height |-> geom[4]]

RECURSIVE attachRectLabels(_, _, _, _)
\* First loop of attachEdgeLabels.  labels[i] = [rect, text]: an edge-label
\* background rectangle and the text the code finds inside it (None: no text).
attachRectLabels(es, d, labels, i) ==
    IF i > Len(labels) THEN es
    ELSE LET box    == RectBox(d[labels[i].rect].geom)
             center == Pt(box.x + box.width \div 2, box.y + box.height \div 2)
         IN  With(findNearestEdge(es, center),
                  LAMBDA match :
                      LET es1 == [es EXCEPT ![match.edge] =
                                     [@ EXCEPT !.labelBackground = labels[i].rect,
                                               !.labelElement = IF labels[i].text # None
                                                                THEN labels[i].text ELSE @,
                                               !.hasLabelInfo = TRUE,
                                               !.labelInfo = LabelInfoAt(match, center)]]
                      IN  With(IF match.edge = 0 THEN es ELSE es1,
                               LAMBDA next : attachRectLabels(next, d, labels, i + 1)))

\* usedRects: the label rectangles that matched an edge
UsedRects(es, d, labels) ==
    {labels[j].rect : j \in {k \in DOMAIN labels :
        LET box == RectBox(d[labels[k].rect].geom)
        IN  findNearestEdge(es, Pt(box.x + box.width \div 2, box.y + box.height \div 2)).edge # 0}}

RECURSIVE attachTextLabels(_, _, _, _, _, _)
\* Second loop of attachEdgeLabels, over the texts no label rectangle used
attachTextLabels(es, d, texts, ns, usedRects, i) ==
    IF i > Len(texts) THEN es
    ELSE LET anchor == Pt(d[texts[i]].geom[1], d[texts[i]].geom[2])
             inNode == \E k \in DOMAIN ns :
                           pointInBBox(anchor, [x |-> ns[k].originalX, y |-> ns[k].originalY,
                                                width |-> ns[k].width, height |-> ns[k].height],
                                       BBoxPad)
             inRect == \E r \in usedRects : pointInBBox(anchor, RectBox(d[r].geom), 2 * BBoxPad)
         IN  With(findNearestEdge(es, anchor),
                  LAMBDA match :
                      LET skip == inNode \/ inRect \/ match.edge = 0
                                  \/ es[match.edge].labelElement # None
                          es1  == [es EXCEPT ![match.edge] =
                                      [@ EXCEPT !.labelElement = texts[i],
                                                !.hasLabelInfo = TRUE,
                                                !.labelInfo = LabelInfoAt(match, anchor)]]
                      IN  With(IF skip THEN es ELSE es1,
                               LAMBDA next :
                                   attachTextLabels(next, d, texts, ns, usedRects, i + 1)))

\* getElementAnchorPoint of a line: its midpoint
LineAnchor(geom) == Pt((geom[1] + geom[3]) \div 2, (geom[2] + geom[4]) \div 2)

RECURSIVE NearestEndpointFrom(_, _, _, _)
\* the loop over edges of attachEdgeDecorations; dist2 = -1: no best yet
NearestEndpointFrom(es, anchor, i, best) ==
    IF i > Len(es) THEN best
    ELSE LET source == es[i].points[1]
             target == Last(es[i].points)
             ds     == Dist2(anchor, source)
             dt     == Dist2(anchor, target)
             cand   == IF ds <= dt
                       THEN [edge |-> i, endpoint |-> "source", dist2 |-> ds, ep |-> source]
                       ELSE [edge |-> i, endpoint |-> "target", dist2 |-> dt, ep |-> target]
         IN  IF Len(es[i].points) < 2 THEN NearestEndpointFrom(es, anchor, i + 1, best)
             ELSE With(IF best.dist2 = -1 \/ cand.dist2 < best.dist2 THEN cand ELSE best,
                       LAMBDA nb : NearestEndpointFrom(es, anchor, i + 1, nb))

RECURSIVE attachEdgeDecorations(_, _, _, _, _)
\* decos: the small line glyphs with the line stroke and no marker, in order
attachEdgeDecorations(es, d, decos, ns, i) ==
    IF i > Len(decos) THEN es
    ELSE LET el     == decos[i]
             owned  == \E k \in DOMAIN ns : \E j \in DOMAIN ns[k].elements :
                           ns[k].elements[j] = el
             anchor == LineAnchor(d[el].geom)
         IN  With(NearestEndpointFrom(es, anchor, 1,
                      [edge |-> 0, endpoint |-> "source", dist2 |-> -1, ep |-> Pt(0, 0)]),
                  LAMBDA best :
                      LET skip == owned \/ best.dist2 = -1
                                  \/ best.dist2 > DecoMaxDist * DecoMaxDist
                          es1  == [es EXCEPT ![best.edge].decorations =
                                      Append(@, [element |-> el, endpoint |-> best.endpoint,
                                                 offset |-> Pt(anchor.x - best.ep.x,
                                                               anchor.y - best.ep.y),
                                                 anchor |-> anchor])]
                      IN  With(IF skip THEN es ELSE es1,
                               LAMBDA next : attachEdgeDecorations(next, d, decos, ns, i + 1)))

RECURSIVE createEdges(_, _, _, _, _, _)
\* The two loops of parseEdges over the connectors (polylines first, then the
\* marker-bearing lines); a polyline with fewer than two points is no edge.
\* edge-${this.edgeCounter++}: the id is the counter, which was c0 when the
\* loops began and has grown by one with every edge created.
createEdges(c0, d, connectors, ns, i, es) ==
    IF i > Len(connectors) THEN es
    ELSE LET el == connectors[i]
         IN  With(IF d[el].tag = "polyline" THEN UnflattenPoints(d[el].geom)
                  ELSE <<Pt(d[el].geom[1], d[el].geom[2]), Pt(d[el].geom[3], d[el].geom[4])>>,
                  LAMBDA points :
                      With(IF Len(points) < 2 THEN es
                           ELSE Append(es, createEdge(c0 + Len(es), el, points, ns)),
                           LAMBDA next : createEdges(c0, d, connectors, ns, i + 1, next)))

\* parseEdges(svg, nodes) on a parser whose edgeCounter is c0
parseEdgesAt(c0, d, doc, ns) ==
    With(createEdges(c0, d, doc.connectors, ns, 1, <<>>),
         LAMBDA es0 :
             IF Len(es0) = 0 THEN es0
             ELSE With(attachRectLabels(es0, d, doc.labelRects, 1),
                       LAMBDA es1 :
                           With(attachTextLabels(es1, d, doc.freeTexts, ns,
                                                 UsedRects(es0, d, doc.labelRects), 1),
                                LAMBDA es2 :
                                    attachEdgeDecorations(es2, d, doc.decorations, ns, 1))))

\* parseEdges as parse() calls it, the counter just reset
parseEdges(d, doc, ns) == parseEdgesAt(0, d, doc, ns)

NodeOriginalBox(n) ==
    [x |-> n.originalX, y |-> n.originalY, width |-> n.width, height |-> n.height]

RECURSIVE FirstHeader(_, _, _, _)
\* headerRects.find(...): the first header rectangle with the container's x, y and width
FirstHeader(d, headers, box, i) ==
    IF i > Len(headers) THEN None
    ELSE LET h == RectBox(d[headers[i]].geom)
         IN  IF h.x = box.x /\ h.y = box.y /\ h.width = box.width THEN headers[i]
             ELSE FirstHeader(d, headers, box, i + 1)

RECURSIVE LeftMost(_, _, _, _, _)
\* the stable sort by x of the texts inside the header band, then its first entry
LeftMost(d, texts, headerBox, i, best) ==
    IF i > Len(texts) THEN best
    ELSE LET pt == Pt(d[texts[i]].geom[1], d[texts[i]].geom[2])
             in == pointInBBox(pt, headerBox, BBoxPad)
         IN  With(IF in /\ (best = None \/ pt.x < d[best].geom[1]) THEN texts[i] ELSE best,
                  LAMBDA nb : LeftMost(d, texts, headerBox, i + 1, nb))

\* memberNodeIds taking every node for a member
MemberIdsAll(ns, outerBox, i) == [k \in DOMAIN ns |-> ns[k].id]

RECURSIVE MemberIds(_, _, _)
\* nodes.filter(center of the original box inside the container).map(n => n.id)
MemberIds(ns, outerBox, i) ==
    IF i > Len(ns) THEN <<>>
    ELSE (IF pointInBBox(Pt(ns[i].originalX + ns[i].width \div 2,
                            ns[i].originalY + ns[i].height \div 2), outerBox, BBoxPad)
          THEN <<ns[i].id>> ELSE <<>>) \o MemberIds(ns, outerBox, i + 1)

\* The body of the loop of parseGroups for one container rectangle
parseGroup(d, doc, ns, outer, id) ==
    LET box          == RectBox(d[outer].geom)
        header       == FirstHeader(d, doc.headerRects, box, 1)
        headerHeight == IF header # None THEN d[header].geom[4] ELSE 0
        headerBox    == IF header # None
                        THEN [box EXCEPT !.height = headerHeight]
                        ELSE [box EXCEPT !.height = Min(120, box.height)]
        labelEl      == LeftMost(d, doc.groupTexts, headerBox, 1, None)
        memberNodeIds == MemberIds(ns, box, 1)
        members      == Members(memberNodeIds, ns, 1)
        I            == DOMAIN members
        minX == SetMin({members[i].originalX : i \in I})
        minY == SetMin({members[i].originalY : i \in I})
        maxX == SetMax({members[i].originalX + members[i].width : i \in I})
        maxY == SetMax({members[i].originalY + members[i].height : i \in I})
    IN  [id |-> id, outerRect |-> outer, headerRect |-> header, labelElement |-> labelEl,
         originalX |-> box.x, originalY |-> box.y,
         originalWidth |-> box.width, originalHeight |-> box.height,
         headerHeight |-> headerHeight,
         memberNodeIds |-> memberNodeIds,
         padding |-> IF Len(memberNodeIds) > 0
                     THEN [left |-> minX - box.x, top |-> minY - box.y,
                           right |-> box.x + box.width - maxX,
                           bottom |-> box.y + box.height - maxY]
                     ELSE [left |-> 0, top |-> 0, right |-> 0, bottom |-> 0],
         labelOffset |-> IF labelEl # None
                         THEN <<Pt(d[labelEl].geom[1] - box.x, d[labelEl].geom[2] - box.y)>>
                         ELSE <<>>]

RECURSIVE parseGroupsFrom(_, _, _, _)
parseGroupsFrom(d, doc, ns, i) ==
    IF i > Len(doc.outerRects) THEN <<>>
    ELSE LET box == RectBox(d[doc.outerRects[i]].geom)
         IN  (IF box.width <= 0 \/ box.height <= 0 THEN <<>>
              ELSE <<parseGroup(d, doc, ns, doc.outerRects[i], i)>>)
             \o parseGroupsFrom(d, doc, ns, i + 1)

parseGroups(d, doc, ns) == parseGroupsFrom(d, doc, ns, 1)

----------------------------------------------------------------------------
(* The documents.  Three nodes N1 (top left), N2 (below it) and N3 (to the *)
(* right of N2), two connectors, an edge label with a background, a free   *)
(* text, an endpoint glyph and a subgraph container with header and label. *)
(* U(n) is n user units.                                                   *)

U(n) == 4 * n

Rect(x, y, w, h) == Element("rect", <<U(x), U(y), U(w), U(h)>>, NoAttr)

Text(x, y) == Element("text", <<U(x), U(y)>>, NoAttr)

Polyline(coords) == Element("polyline", [i \in DOMAIN coords |-> U(coords[i])], NoAttr)

Line(x1, y1, x2, y2) == Element("line", <<U(x1), U(y1), U(x2), U(y2)>>, NoAttr)

\* Connector 1 runs from the bottom of N1 to the top of N2.
Connector1(v) ==
    CASE v = 1 -> Polyline(<<20, 20, 20, 100>>)
      [] v = 2 -> Polyline(<<20, 20, 20, 60, 20, 100>>)
      [] v = 3 -> Line(20, 20, 20, 100)

\* Connector 2: an L from N1 to N3, a slanted or a Z-shaped path from N2 to N3,
\* or a slanted path that touches no node.
Connector2(w) ==
    CASE w = 1 -> Polyline(<<40, 10, 140, 10, 140, 100>>)
      [] w = 2 -> Polyline(<<40, 105, 120, 115>>)
      [] w = 3 -> Polyline(<<20, 120, 20, 140, 140, 140, 140, 120>>)
      [] w = 4 -> Polyline(<<300, 300, 340, 320>>)

\* The free text drawn beside connector 2
FreeText(w) ==
    CASE w = 1 -> Text(90, 6)
      [] w = 2 -> Text(80, 106)
      [] w = 3 -> Text(80, 144)
      [] w = 4 -> Text(320, 306)

\* The subgraph container: around N2 and N3, around N3 alone, or around no node
Container(g) ==
    CASE g = 1 -> Rect(-10, 80, 180, 50)
      [] g = 2 -> Rect(110, 76, 60, 54)
      [] g = 3 -> Rect(200, 0, 60, 50)

Header(g) ==
    CASE g = 1 -> Rect(-10, 80, 180, 16)
      [] g = 2 -> Rect(110, 76, 60, 16)
      [] g = 3 -> Rect(200, 0, 60, 16)

GroupLabel(g) ==
    CASE g = 1 -> Text(2, 90)
      [] g = 2 -> Text(122, 86)
      [] g = 3 -> Text(212, 10)

\* The caption of N3: inside its box, or below it as under an icon
Caption(c) ==
    CASE c = 1 -> Text(140, 110)
      [] c = 2 -> Text(140, 124)

Variants == {<<1, 1, 1, 1>>, <<1, 2, 2, 1>>, <<2, 3, 1, 2>>, <<3, 4, 2, 1>>, <<2, 1, 3, 1>>}

InitialDom(v, w, g, c) ==
    <<Rect(0, 0, 40, 20), Text(20, 10),                    \* 1, 2: N1
      Rect(0, 100, 40, 20), Text(20, 110),                 \* 3, 4: N2
      Element("g", <<>>, Attr(<<OrigToken>>)), Caption(c), \* 5, 6: N3
      Connector1(v), Connector2(w),                        \* 7, 8
      Rect(10, 52, 20, 16), Text(20, 60),                  \* 9, 10: label of connector 1
      FreeText(w),                                         \* 11
      Line(16, 96, 24, 96),                                \* 12: glyph at the end of connector 1
      Container(g), Header(g), GroupLabel(g)>>             \* 13, 14, 15

Document ==
    [connectors |-> <<7, 8>>,
     labelRects |-> <<[rect |-> 9, text |-> 10]>>,
     freeTexts  |-> <<2, 4, 6, 11, 15>>,
     decorations |-> <<12>>,
     outerRects |-> <<13>>, headerRects |-> <<14>>, groupTexts |-> <<15>>]

ParsedNode(id, els, x, y, w, h) ==
    [id |-> id, elements |-> els, x |-> U(x), y |-> U(y), width |-> U(w), height |-> U(h),
     originalX |-> U(x), originalY |-> U(y)]

\* The node list parseNodes hands on for these documents
ParsedNodes ==
    <<ParsedNode(1, <<1, 2>>, 0, 0, 40, 20),
      ParsedNode(2, <<3, 4>>, 0, 100, 40, 20),
      ParsedNode(3, <<5, 6>>, 120, 100, 40, 20)>>

NodeIds == {ParsedNodes[i].id : i \in DOMAIN ParsedNodes}

\* An identifier no node has
UnknownId == CHOOSE i \in 1..(Len(ParsedNodes) + 1) : i \notin NodeIds

\* The displacements the environment moves a node by, of which the first
\* MaxDeltas are used
DeltaList == <<Pt(U(40), 0), Pt(0, -U(80)), Pt(1, 3), Pt(-U(40), U(60)), Pt(U(40), U(20))>>

MaxDeltas == 2

Deltas == {DeltaList[i] : i \in 1..Min(MaxDeltas, Len(DeltaList))} \cup {Pt(0, 0)}

----------------------------------------------------------------------------
(* The tracker on its own: new NodeTracker(nodes, edges, groups) on the    *)
(* result of parse(), then any sequence of its public methods.             *)

NoHandler == [exists |-> FALSE]

\* A call record: ret is "void", "true", "false", "object" (the object is in
\* value) or the name of the error thrown
Call(args, ret, passes) == [args |-> args, ret |-> ret, value |-> <<>>, passes |-> passes]

NoCall == Call(<<>>, "void", <<>>)

\* The length of the call sequences explored
MaxSteps == 3

Step ==
    /\ steps < MaxSteps
    /\ steps' = steps + 1
    /\ UNCHANGED <<parsed, parser>>

\* The calls updateNodePosition is made with: every node by every displacement,
\* and one call with an identifier no node has
Moves ==
    {<<id, delta>> : id \in NodeIds, delta \in Deltas} \cup {<<UnknownId, Pt(0, 0)>>}

TrackerInit(v, w, g, c) ==
    /\ nodes = ParsedNodes
    /\ originalPositions =
           [id \in NodeIds |-> Pt(GetNode(ParsedNodes, id).originalX,
                                  GetNode(ParsedNodes, id).originalY)]
    /\ dom = InitialDom(v, w, g, c)
    /\ edges = parseEdges(dom, Document, ParsedNodes)
    /\ groups = parseGroups(dom, Document, ParsedNodes)
    /\ parsed = edges
    /\ parser = <<Len(edges)>>
    /\ pressed = NotPressed
    /\ lastOp = "new"
    /\ stage = "parsed"

Init ==
    /\ \E t \in Variants : TrackerInit(t[1], t[2], t[3], t[4])
    /\ handler = NoHandler
    /\ inst = NoHandler
    /\ storage = <<>>
    /\ calls = <<>>
    /\ closure = NoHandler
    /\ steps = 0
    /\ call = NoCall

\* updateNodePosition(id, x, y), the call drawn from moves: a node the tracker
\* has is sent to its original position plus the displacement
UpdateNodePositionBy(moves) ==
    \E m \in moves :
      LET id == m[1]
          delta == m[2]
          known == id \in DOMAIN originalPositions
          x == IF known THEN originalPositions[id].x + delta.x ELSE delta.x
          y == IF known THEN originalPositions[id].y + delta.y ELSE delta.y
      IN
        /\ Step
        /\ nodes' = updateNodePosition(nodes, id, x, y)
        /\ call' = Call(<<id, x, y>>, updateNodePositionReturns(nodes, id), <<>>)
        /\ lastOp' = "updateNodePosition"
        /\ stage' = IF stage = "parsed" /\ known THEN "moved" ELSE "later"
        /\ UNCHANGED <<originalPositions, edges, groups, dom, uiVars>>

UpdateNodePosition == UpdateNodePositionBy(Moves)

ApplyPositionUpdates ==
    \E r \in {applyPositionUpdates(edges, nodes, dom)} :
        /\ Step
        /\ edges' = r.edges
        /\ dom' = r.dom
        /\ call' = NoCall
        /\ lastOp' = "applyPositionUpdates"
        /\ stage' = IF stage = "moved" THEN "applied" ELSE "later"
        /\ UNCHANGED <<nodes, originalPositions, groups, uiVars>>

\* resetAllPositions() resetting no node
resetAllPositionsNoLoop(ns, ops) == ns

RECURSIVE resetAllPositions(_, _)
\* the loop of resetAllPositions over originalPositions
resetAllPositions(ns, ops) ==
    IF ops = {} THEN ns
    ELSE With(CHOOSE i \in ops : TRUE,
              LAMBDA id :
                  With(updateNodePosition(ns, id, originalPositions[id].x,
                                          originalPositions[id].y),
                       LAMBDA ns1 :
                           With(ops \ {id}, LAMBDA rest : resetAllPositions(ns1, rest))))

\* The tracker methods resetAllPositions() runs: one updateNodePosition for
\* each original position
resetAllPasses(ops) == [i \in 1..Cardinality(ops) |-> "updateNodePosition"]

ResetAllPositions ==
    /\ Step
    /\ nodes' = resetAllPositions(nodes, DOMAIN originalPositions)
    /\ call' = Call(<<>>, "void", resetAllPasses(DOMAIN originalPositions))
    /\ lastOp' = "resetAllPositions"
    /\ stage' = "later"
    /\ UNCHANGED <<originalPositions, edges, groups, dom, uiVars>>

RECURSIVE setEntries(_, _)
\* the loop of setPositions over the entries of the record, a sequence of [id, x, y]
setEntries(ns, entries) ==
    IF entries = <<>> THEN ns
    ELSE With(updateNodePosition(ns, entries[1].id, entries[1].x, entries[1].y),
              LAMBDA ns1 : With(Tail(entries), LAMBDA rest : setEntries(ns1, rest)))

\* setPositions(positions) without its closing applyPositionUpdates()
setPositionsNoApply(es, ns, d, entries) ==
    [nodes |-> setEntries(ns, entries), edges |-> es, dom |-> d,
     passes |-> [i \in DOMAIN entries |-> "updateNodePosition"]]

\* setPositions(positions): the entries, then one applyPositionUpdates()
setPositions(es, ns, d, entries) ==
    With(setEntries(ns, entries),
         LAMBDA ns1 :
             [nodes |-> ns1,
              passes |-> [i \in DOMAIN entries |-> "updateNodePosition"]
                         \o <<"applyPositionUpdates">>]
             @@ applyPositionUpdates(es, ns1, d))

\* The records setPositions is called with
PositionRecords ==
    {<<[id |-> 2, x |-> U(40), y |-> U(100)]>>,
     <<[id |-> 3, x |-> U(160), y |-> U(100)], [id |-> UnknownId, x |-> 0, y |-> 0]>>,
     <<[id |-> 2, x |-> U(40), y |-> U(100)], [id |-> 3, x |-> U(160), y |-> U(100)]>>}

SetPositions ==
    \E entries \in PositionRecords :
        \E r \in {setPositions(edges, nodes, dom, entries)} :
            /\ Step
            /\ nodes' = r.nodes
            /\ edges' = r.edges
            /\ dom' = r.dom
            /\ call' = Call(entries, "void", r.passes)
            /\ lastOp' = "setPositions"
            /\ stage' = "later"
            /\ UNCHANGED <<originalPositions, groups, uiVars>>

PolishLayout ==
    \E r \in {polishLayout(edges, nodes, groups, dom)} :
        /\ Step
        /\ edges' = r.edges
        /\ dom' = r.dom
        /\ call' = NoCall
        /\ lastOp' = "polishLayout"
        /\ stage' = "later"
        /\ UNCHANGED <<nodes, originalPositions, groups, uiVars>>

Next ==
    \/ UpdateNodePosition
    \/ ApplyPositionUpdates
    \/ ResetAllPositions
    \/ SetPositions
    \/ PolishLayout

Spec == Init /\ [][Next]_vars

----------------------------------------------------------------------------
(* The tracker on a document with two subgraph containers.  The first in   *)
(* document order is a container around no node, a narrow one that holds   *)
(* only the centers of N2 and N3, or one around N1; the second is the      *)
(* container around N2 and N3.  new NodeTracker(nodes, edges, groups) is   *)
(* given every parsed node, or N2 and N3 only.  Coordinates are integers,  *)
(* so every isFinite test of polishGroups passes.                          *)

Container2(k) ==
    CASE k = 1 -> Rect(200, 0, 60, 50)
      [] k = 2 -> Rect(21, 108, 118, 4)
      [] k = 3 -> Rect(-10, -14, 60, 40)

Header2(k) ==
    CASE k = 1 -> Rect(200, 0, 60, 16)
      [] k = 2 -> Rect(21, 108, 118, 2)
      [] k = 3 -> Rect(-10, -14, 60, 8)

GroupLabel2(k) ==
    CASE k = 1 -> Text(212, 10)
      [] k = 2 -> Text(25, 109)
      [] k = 3 -> Text(-4, -10)

GroupsDom(k) ==
    InitialDom(1, 1, 1, 1) \o <<Container2(k), Header2(k), GroupLabel2(k)>>  \* 16, 17, 18

GroupsDocument ==
    [Document EXCEPT !.freeTexts = <<2, 4, 6, 11, 15, 18>>,
                     !.outerRects = <<16, 13>>, !.headerRects = <<14, 17>>,
                     !.groupTexts = <<15, 18>>]

\* The first container and the nodes the tracker is given
GroupVariants == {<<1, {1, 2, 3}>>, <<2, {1, 2, 3}>>, <<3, {1, 2, 3}>>, <<3, {2, 3}>>}

GroupMoves ==
    {<<2, Pt(U(120), 0)>>, <<3, Pt(U(40), 0)>>, <<3, Pt(0, -U(80))>>, <<1, Pt(U(40), 0)>>}

Tracked(ns, ids) == SelectSeq(ns, LAMBDA n : n.id \in ids)

GroupsInit ==
    /\ \E t \in GroupVariants :
          /\ dom = GroupsDom(t[1])
          /\ nodes = Tracked(ParsedNodes, t[2])
          /\ originalPositions =
                 [id \in t[2] |-> Pt(GetNode(ParsedNodes, id).originalX,
                                     GetNode(ParsedNodes, id).originalY)]
    /\ edges = parseEdges(dom, GroupsDocument, ParsedNodes)
    /\ groups = parseGroups(dom, GroupsDocument, ParsedNodes)
    /\ parsed = edges
    /\ parser = <<Len(edges)>>
    /\ pressed = NotPressed
    /\ lastOp = "new"
    /\ stage = "parsed"
    /\ handler = NoHandler
    /\ inst = NoHandler
    /\ storage = <<>>
    /\ calls = <<>>
    /\ closure = NoHandler
    /\ steps = 0
    /\ call = NoCall

GroupsNext ==
    \/ UpdateNodePositionBy(GroupMoves)
    \/ ApplyPositionUpdates
    \/ PolishLayout

SpecGroups == GroupsInit /\ [][GroupsNext]_vars

----------------------------------------------------------------------------
(* Drags that end with the polish pass: updateNodePosition, then           *)
(* polishLayout().  N2 is brought up until the top of its box meets the    *)
(* bottom of N1, or a quarter of a unit short of that; N1 and N3 are moved *)
(* to the right.                                                           *)

PolishMoves ==
    {<<2, Pt(0, -U(80))>>, <<2, Pt(0, 1 - U(80))>>, <<1, Pt(U(40), 0)>>, <<3, Pt(U(40), 0)>>}

PolishNext ==
    \/ UpdateNodePositionBy(PolishMoves)
    \/ PolishLayout

SpecPolish == Init /\ [][PolishNext]_vars

----------------------------------------------------------------------------
(* parseNodes, on documents whose elements carry their fill and stroke.    *)
(* A paint is the sequence of the pieces of its text, so that              *)
(* includes(token) is membership of the token among the pieces.  The       *)
(* documents are flowcharts: no element is a circle, ellipse, polygon or   *)
(* path, no text has the class mono, and the lifelines of sequence         *)
(* diagrams do not occur.                                                   *)

CssVar(name) == <<"var(--", name, ")">>

Includes(paint, token) == \E i \in DOMAIN paint : paint[i] = token

Painted(el, fill, stroke) ==
    [tag |-> el.tag, geom |-> el.geom, transform |-> el.transform,
     dataOriginal |-> el.dataOriginal, fill |-> fill, stroke |-> stroke, marker |-> FALSE]

isEdgeLabelBackground(rect) ==
    /\ Includes(rect.stroke, "_inner-stroke")
    /\ ~(rect.geom[4] > U(40))
    /\ ~(rect.fill # <<>> /\ rect.fill # CssVar("bg"))

\* fill.includes('_group-fill') || fill.includes('_group-hdr')
isGroupChrome(rect) == Includes(rect.fill, "_group-fill") \/ Includes(rect.fill, "_group-hdr")

\* svg.querySelectorAll(...) for a set of tags: the elements in document order
QuerySelectorAll(d, tags) == SelectSeq([i \in DOMAIN d |-> i], LAMBDA i : d[i].tag \in tags)

\* The filter of parseNodes over the shapes
candidateShapes(d) ==
    SelectSeq(QuerySelectorAll(d, {"rect", "circle", "polygon", "ellipse", "path"}),
              LAMBDA i :
                  d[i].tag = "rect" =>
                      /\ ~isEdgeLabelBackground(d[i])
                      /\ ~isGroupChrome(d[i])
                      /\ ~(d[i].geom[3] < U(15) \/ d[i].geom[4] < U(15)))

\* getBBox of a rect
getBBox(el) == RectBox(el.geom)

\* dist < thresh of groupShapesByProximity, on doubled coordinates: the
\* distance of the centers against half the largest of the four dimensions
Near(a, b) ==
    LET dx == (2 * a.x + a.width) - (2 * b.x + b.width)
        dy == (2 * a.y + a.height) - (2 * b.y + b.height)
        m  == Max(Max(a.width, a.height), Max(b.width, b.height))
    IN  dx * dx + dy * dy < m * m

RECURSIVE Joining(_, _, _, _, _)
\* The inner loop of groupShapesByProximity: the unused shapes near the seed
Joining(d, shapes, seed, used, j) ==
    IF j > Len(shapes) THEN <<>>
    ELSE (IF shapes[j] \notin used /\ Near(getBBox(d[seed]), getBBox(d[shapes[j]]))
          THEN <<shapes[j]>> ELSE <<>>) \o Joining(d, shapes, seed, used, j + 1)

RECURSIVE groupShapesFrom(_, _, _, _)
groupShapesFrom(d, shapes, used, i) ==
    IF i > Len(shapes) THEN <<>>
    ELSE IF shapes[i] \in used THEN groupShapesFrom(d, shapes, used, i + 1)
    ELSE With(<<shapes[i]>> \o Joining(d, shapes, shapes[i], used \cup {shapes[i]}, 1),
              LAMBDA group :
                  <<group>> \o groupShapesFrom(d, shapes,
                                               used \cup {group[k] : k \in DOMAIN group}, i + 1))

groupShapesByProximity(d, shapes) == groupShapesFrom(d, shapes, {}, 1)

unionBBox(boxes) ==
    LET I    == DOMAIN boxes
        minX == SetMin({boxes[i].x : i \in I})
        minY == SetMin({boxes[i].y : i \in I})
        maxX == SetMax({boxes[i].x + boxes[i].width : i \in I})
        maxY == SetMax({boxes[i].y + boxes[i].height : i \in I})
    IN  [x |-> minX, y |-> minY, width |-> maxX - minX, height |-> maxY - minY]

getTextAnchorPoint(el) == Pt(el.geom[1], el.geom[2])

\* The first entry of a non-empty list with the least key: what a stable sort
\* puts first, and what a scan replacing its best on a strictly smaller key keeps
FirstLeast(d, els, key(_)) ==
    els[CHOOSE i \in DOMAIN els :
            \A j \in DOMAIN els : /\ key(d[els[i]]) <= key(d[els[j]])
                                  /\ (j < i => key(d[els[j]]) > key(d[els[i]]))]

pickNodeLabelElement(d, bbox, texts) ==
    LET inside  == SelectSeq(texts, LAMBDA t : pointInBBox(getTextAnchorPoint(d[t]), bbox, U(2)))
        bottomY == bbox.y + bbox.height
        below   == SelectSeq(texts,
                       LAMBDA t :
                           LET pt == getTextAnchorPoint(d[t])
                           IN  /\ ~(Abs(2 * pt.x - (2 * bbox.x + bbox.width)) > 2 * U(4))
                               /\ ~(pt.y < bottomY - U(2) \/ pt.y > bottomY + U(40)))
    IN  IF Len(inside) = 0
        THEN IF Len(below) = 0 THEN None
             ELSE FirstLeast(d, below, LAMBDA el : el.geom[2] - bottomY)
        ELSE FirstLeast(d, inside, LAMBDA el : el.geom[2])

\* createNodeFromShapeGroup.  The identifier is the place of the node in the
\* list, standing for the node-<hash> of generateNodeId.
createNodeFromShapeGroup(d, id, shapes, texts) ==
    LET bbox    == unionBBox([k \in DOMAIN shapes |-> getBBox(d[shapes[k]])])
        labelEl == pickNodeLabelElement(d, bbox, texts)
    IN  [id |-> id, elements |-> IF labelEl # None THEN Append(shapes, labelEl) ELSE shapes,
         x |-> bbox.x, y |-> bbox.y, width |-> bbox.width, height |-> bbox.height,
         originalX |-> bbox.x, originalY |-> bbox.y]

getElementAnchorPoint(el) ==
    CASE el.tag = "text" -> getTextAnchorPoint(el)
      [] el.tag = "line" -> LineAnchor(el.geom)
      [] OTHER -> LET bbox == getBBox(el)
                  IN  Pt(bbox.x + bbox.width \div 2, bbox.y + bbox.height \div 2)

\* expandNodeElements taking in whatever is anchored in the box of the node
AbsorbsAnything(el, bbox) == pointInBBox(getElementAnchorPoint(el), bbox, BBoxPad)

\* The body of the loop of expandNodeElements: whether the candidate joins the
\* elements of the node.  No element of these documents has a parent that a
\* node holds.
Absorbs(el, bbox) ==
    /\ ~(el.tag = "line" /\ el.marker)
    /\ ~(el.tag = "rect" /\ isEdgeLabelBackground(el))
    /\ ~(el.tag = "rect" /\ isGroupChrome(el))
    /\ pointInBBox(getElementAnchorPoint(el), bbox, BBoxPad)

RECURSIVE Expanded(_, _, _, _, _)
Expanded(d, bbox, candidates, i, elements) ==
    IF i > Len(candidates) THEN elements
    ELSE With(IF Absorbs(d[candidates[i]], bbox)
                 /\ \A k \in DOMAIN elements : elements[k] # candidates[i]
              THEN Append(elements, candidates[i]) ELSE elements,
              LAMBDA next : Expanded(d, bbox, candidates, i + 1, next))

expandNodeElements(d, node) ==
    [node EXCEPT !.elements =
        Expanded(d, NodeOriginalBox(node),
                 QuerySelectorAll(d, {"text", "line", "rect", "circle", "ellipse",
                                      "polygon", "path"}), 1, node.elements)]

\* parseNodes(svg, diagramType) for a diagram that is no sequence diagram
parseNodes(d) ==
    With(groupShapesByProximity(d, candidateShapes(d)),
         LAMBDA shapeGroups :
             [i \in DOMAIN shapeGroups |->
                 expandNodeElements(d, createNodeFromShapeGroup(d, i, shapeGroups[i],
                                                                QuerySelectorAll(d, {"text"})))])

(* The documents: nodes A and B, a connector from A to B, a label on a      *)
(* background rectangle, a subgraph container around B with its header and *)
(* label, a small badge on A, and a glyph at each end of the connector.    *)
(* The background rectangle of the label lies on the connector between the *)
(* nodes, overlaps the top of B (with the text of the label above B or on  *)
(* its upper side), or lies far from the connector, which then has no      *)
(* label of its own; the connector enters the subgraph through             *)
(* the header, 18 units from the anchor of the header's label.  The header *)
(* is 16 units high or as high as the container.                           *)

NodeRect(x, y, w, h) == Painted(Rect(x, y, w, h), CssVar("_node-fill"), CssVar("_node-stroke"))

PlainText(x, y) == Painted(Text(x, y), <<>>, <<>>)

LabelBackground(b) ==
    Painted(CASE b = 1 -> Rect(10, 52, 20, 16)
              [] b = 2 -> Rect(10, 92, 20, 16)
              [] b = 3 -> Rect(300, 300, 20, 16)
              [] b = 4 -> Rect(10, 92, 20, 16),
            CssVar("bg"), CssVar("_inner-stroke"))

LabelText(b) ==
    CASE b = 1 -> PlainText(20, 60)
      [] b = 2 -> PlainText(20, 97)
      [] b = 3 -> PlainText(310, 308)
      [] b = 4 -> PlainText(20, 100)

NodesDom(b, h) ==
    <<NodeRect(0, 0, 40, 20), PlainText(20, 10),                       \* 1, 2: A
      NodeRect(0, 100, 40, 20), PlainText(20, 110),                    \* 3, 4: B
      Painted(Polyline(<<20, 20, 20, 100>>), <<>>, CssVar("_line")),   \* 5
      LabelBackground(b), LabelText(b),                                \* 6, 7
      Painted(Rect(-10, 70, 60, 60), CssVar("_group-fill"), CssVar("_node-stroke")),  \* 8
      Painted(Rect(-10, 70, 60, IF h = 1 THEN 16 ELSE 60),
              CssVar("_group-hdr"), CssVar("_node-stroke")),           \* 9
      Painted(Text(2, 78), CssVar("_text-sec"), <<>>),                 \* 10
      Painted(Rect(4, 4, 8, 8), CssVar("_key-badge"), <<>>),           \* 11
      Painted(Line(16, 24, 24, 24), <<>>, CssVar("_line")),            \* 12
      Painted(Line(16, 96, 24, 96), <<>>, CssVar("_line"))>>           \* 13

\* What the selectors of parseEdges and parseGroups find in these documents
NodesDocument(d) ==
    [connectors |-> QuerySelectorAll(d, {"polyline"}),
     labelRects |-> <<[rect |-> 6, text |-> 7]>>,
     freeTexts  |-> <<2, 4, 7, 10>>,
     decorations |-> SelectSeq(QuerySelectorAll(d, {"line"}),
                               LAMBDA i :
                                   /\ ~d[i].marker
                                   /\ ~(Dist2(Pt(d[i].geom[1], d[i].geom[2]),
                                              Pt(d[i].geom[3], d[i].geom[4])) > U(40) * U(40))
                                   /\ Includes(d[i].stroke, "_line")),
     outerRects |-> SelectSeq(QuerySelectorAll(d, {"rect"}),
                              LAMBDA i : Includes(d[i].fill, "_group-fill")),
     headerRects |-> SelectSeq(QuerySelectorAll(d, {"rect"}),
                               LAMBDA i : Includes(d[i].fill, "_group-hdr")),
     groupTexts |-> SelectSeq(QuerySelectorAll(d, {"text"}),
                              LAMBDA i : d[i].fill = <<>> \/ Includes(d[i].fill, "_text-sec"))]

NodesVariants == {<<1, 1>>, <<1, 2>>, <<2, 1>>, <<2, 2>>, <<3, 1>>, <<4, 1>>}

\* new NodeTracker(nodes, edges, groups) on the result of parse(svg)
NodesInit ==
    /\ \E t \in NodesVariants : dom = NodesDom(t[1], t[2])
    /\ nodes = parseNodes(dom)
    /\ originalPositions =
           [id \in {nodes[i].id : i \in DOMAIN nodes} |->
               Pt(GetNode(nodes, id).originalX, GetNode(nodes, id).originalY)]
    /\ edges = parseEdges(dom, NodesDocument(dom), nodes)
    /\ groups = parseGroups(dom, NodesDocument(dom), nodes)
    /\ parsed = edges
    /\ parser = <<Len(edges)>>
    /\ pressed = NotPressed
    /\ lastOp = "new"
    /\ stage = "parsed"
    /\ handler = NoHandler
    /\ inst = NoHandler
    /\ storage = <<>>
    /\ calls = <<>>
    /\ closure = NoHandler
    /\ steps = 0
    /\ call = NoCall

SpecNodes == NodesInit /\ [][Next]_vars

----------------------------------------------------------------------------
(* Position serializer.  A string is a sequence of one-character strings.  *)

CharCode(ch) ==
    CASE ch = "A" -> 65 [] ch = "B" -> 66 [] ch = "a" -> 97 [] ch = "-" -> 45 [] ch = ">" -> 62
      [] ch = "p" -> 112 [] ch = "q" -> 113 [] ch = "," -> 44
      [] ch = "0" -> 48 [] ch = "1" -> 49 [] ch = "2" -> 50 [] ch = "3" -> 51 [] ch = "4" -> 52
      [] ch = "5" -> 53 [] ch = "6" -> 54 [] ch = "7" -> 55 [] ch = "8" -> 56 [] ch = "9" -> 57

Digits36 ==
    <<"0", "1", "2", "3", "4", "5", "6", "7", "8", "9", "a", "b", "c", "d", "e", "f", "g", "h",
      "i", "j", "k", "l", "m", "n", "o", "p", "q", "r", "s", "t", "u", "v", "w", "x", "y", "z">>

RECURSIVE ToString36(_)
\* n.toString(36) for an integer n >= 0
ToString36(n) ==
    IF n < 36 THEN <<Digits36[n + 1]>>
    ELSE Append(ToString36(n \div 36), Digits36[(n % 36) + 1])

\* One round of the loop of simpleHash on the 32-bit hash kept as two 16-bit
\* halves: hash = ((hash << 5) - hash + char) wrapped to 32 bits
HashRound(h, code) ==
    LET low == h.lo * 31 + code
    IN  [hi |-> (h.hi * 31 + low \div 65536) % 65536, lo |-> low % 65536]

RECURSIVE HashLoop(_, _, _)
HashLoop(str, i, h) ==
    IF i > Len(str) THEN h
    ELSE With(HashRound(h, CharCode(str[i])), LAMBDA h1 : HashLoop(str, i + 1, h1))

\* simpleHash(str): Math.abs of the signed 32-bit hash, in base 36
simpleHash(str) ==
    With(HashLoop(str, 1, [hi |-> 0, lo |-> 0]),
         LAMBDA h :
             IF h.hi < 32768 THEN ToString36(h.hi * 65536 + h.lo)
             ELSE IF h.hi = 32768 /\ h.lo = 0 THEN <<"z", "i", "k", "0", "z", "k">>
             ELSE IF h.lo = 0 THEN ToString36((65536 - h.hi) * 65536)
             ELSE ToString36((65535 - h.hi) * 65536 + (65536 - h.lo)))

DefaultPrefix == <<"m", "e", "r", "m", "a", "i", "d", "-", "l", "a", "y", "o", "u", "t">>

\* generateStorageKey(source, prefix); an absent prefix is <<>>
generateStorageKey(source, prefix) ==
    (IF prefix = <<>> THEN DefaultPrefix ELSE prefix) \o <<"-">> \o simpleHash(source)

\* tracker.getAllPositions()
getAllPositions(ns) ==
    [id \in {ns[i].id : i \in DOMAIN ns} |-> Pt(GetNode(ns, id).x, GetNode(ns, id).y)]

(* Values of the language as the serializer meets them: t is the kind, n   *)
(* the number of a "number", f the fields of an "object" or the characters *)
(* of a "string".  A position mapping is an object from ids to objects     *)
(* with the fields x and y.                                                *)

Value(t, n, f) == [t |-> t, n |-> n, f |-> f]

JsNumber(n) == Value("number", n, <<>>)

JsNaN == Value("NaN", 0, <<>>)

JsInfinity == Value("Infinity", 0, <<>>)

JsNull == Value("null", 0, <<>>)

JsUndefined == Value("undefined", 0, <<>>)

JsString(str) == Value("string", 0, str)

JsObject(f) == Value("object", 0, f)

\* o[k] on a value that is neither null nor undefined
Get(o, k) == IF o.t = "object" /\ k \in DOMAIN o.f THEN o.f[k] ELSE JsUndefined

\* if (v): null, undefined, NaN, 0 and "" are falsy
Truthy(v) ==
    CASE v.t \in {"null", "undefined", "NaN"} -> FALSE
      [] v.t = "number" -> v.n # 0
      [] v.t = "string" -> v.f # <<>>
      [] OTHER -> TRUE

\* The value a coordinate pair stands for
PointValue(pt) == JsObject([x |-> JsNumber(pt.x), y |-> JsNumber(pt.y)])

\* The object getAllPositions() builds, as a value
PositionsValue(positions) ==
    JsObject([id \in DOMAIN positions |-> PointValue(positions[id])])

\* JSON.stringify leaving every value as it is
toJSONUnchanged(v) == v

RECURSIVE toJSON(_)
\* What JSON.stringify writes for a value: a number that is not finite is
\* written as null, and a field whose value is undefined is left out
toJSON(v) ==
    IF v.t \in {"NaN", "Infinity"} THEN JsNull
    ELSE IF v.t = "object"
    THEN JsObject([k \in {j \in DOMAIN v.f : v.f[j].t # "undefined"} |-> toJSON(v.f[k])])
    ELSE v

\* A text: one JSON.parse accepts, with the value it stands for, or one it
\* rejects
JSONstringify(v) == [json |-> TRUE, value |-> toJSON(v)]

NotJSON == [json |-> FALSE, value |-> JsNull]

SERIALIZATION_VERSION == 1

\* serialize(positions, source): the clock is the number of steps taken
serialize(positions, source, now) ==
    JSONstringify(JsObject([version |-> JsNumber(SERIALIZATION_VERSION),
                            source |-> JsString(source),
                            positions |-> positions,
                            timestamp |-> JsNumber(now),
                            diagramType |-> JsUndefined]))

\* deserialize(data, currentSource): the catch block answers null when
\* JSON.parse throws and when layout.version is read from null
deserialize(data, currentSource) ==
    IF ~data.json THEN JsNull
    ELSE IF data.value.t = "null" THEN JsNull
    ELSE Get(data.value, "positions")

\* localStorage.setItem(key, data)
setItem(store, key, data) ==
    [k \in DOMAIN store \cup {key} |-> IF k = key THEN data ELSE store[k]]

saveToLocalStorage(store, positions, source, prefix, now) ==
    setItem(store, generateStorageKey(source, prefix), serialize(positions, source, now))

\* A load that finds nothing
loadNothing(store, source, prefix) == JsNull

loadFromLocalStorage(store, source, prefix) ==
    With(generateStorageKey(source, prefix),
         LAMBDA key : IF key \notin DOMAIN store THEN JsNull
                      ELSE deserialize(store[key], source))

RECURSIVE ObjectEntries(_, _)
\* Object.entries(positions) for the fields ids of an object, in the order of
\* the ids; a value that is no object has no entries
ObjectEntries(v, ids) ==
    IF v.t # "object" \/ ids = {} THEN <<>>
    ELSE With(CHOOSE i \in ids : \A o \in ids : i <= o,
              LAMBDA id :
                  <<[id |-> id, pos |-> v.f[id]]>>
                  \o With(ids \ {id}, LAMBDA rest : ObjectEntries(v, rest)))

\* The calls updateNodePosition(id, pos.x, pos.y) of a run of entries
Coordinates(entries) ==
    [k \in DOMAIN entries |->
        [id |-> entries[k].id, x |-> Get(entries[k].pos, "x").n,
         y |-> Get(entries[k].pos, "y").n]]

\* tracker.setPositions(positions) on a value: pos.x throws a TypeError at
\* the first entry whose value is null or undefined, with the entries before
\* it written to the nodes and no applyPositionUpdates()
setPositionsValue(es, ns, d, v) ==
    With(ObjectEntries(v, IF v.t = "object" THEN DOMAIN v.f ELSE {}),
         LAMBDA entries :
             LET bad == {k \in DOMAIN entries : entries[k].pos.t \in {"null", "undefined"}}
             IN  IF bad = {}
                 THEN [threw |-> "none"] @@ setPositions(es, ns, d, Coordinates(entries))
                 ELSE With(CHOOSE k \in bad : \A o \in bad : k <= o,
                           LAMBDA k :
                               [threw |-> "TypeError",
                                nodes |-> setEntries(ns, Coordinates(SubSeq(entries, 1, k - 1))),
                                edges |-> es, dom |-> d,
                                passes |-> [i \in 1..(k - 1) |-> "updateNodePosition"]]))

----------------------------------------------------------------------------
(* makeInteractive, the InteractiveMermaid instance it returns and the      *)
(* DragHandler of the instance.  Pointer positions are in SVG coordinates.  *)
(* An option is "unset", "true" or "false"; a callback is "none", "user" or *)
(* "autosave", the wrapper makeInteractive writes into the caller's object. *)

Options(autoSave, prefix, disabled, polish, touch, grid, user) ==
    [autoSave |-> autoSave, storageKeyPrefix |-> prefix, disabled |-> disabled,
     polishOnDragEnd |-> polish, touchEnabled |-> touch, gridSize |-> grid,
     onDragStart |-> user, onDragMove |-> user, onDragEnd |-> user]

\* The option objects makeInteractive is called with
OptionSets ==
    {Options("unset", <<>>, "unset", "unset", "unset", 0, "user"),
     Options("true", <<"p">>, "unset", "false", "false", 0, "none"),
     Options("false", <<>>, "unset", "unset", "unset", U(10), "user"),
     Options("unset", <<"q">>, "true", "unset", "unset", 0, "user")}

\* The data-mermaid-source of the container; <<>> when it has none
Sources == {<<>>, <<"A", "-", "-", ">", "B">>}

\* A layout saved by an earlier session
SavedLayout(source) ==
    serialize(PositionsValue([id \in {2} |-> Pt(U(40), U(100))]), source, 0)

\* Stored texts that are no layout: not JSON, the text null, a layout without
\* positions, positions that are a number, and positions that give a node
\* null (alone, or after a well-formed entry of another node).  Texts that
\* give a node an object or a primitive without numeric x and y are not among
\* them: the tracker's arithmetic is over numbers.
MalformedTexts ==
    {NotJSON,
     JSONstringify(JsNull),
     JSONstringify(JsObject([version |-> JsNumber(SERIALIZATION_VERSION)])),
     JSONstringify(JsObject([version |-> JsNumber(SERIALIZATION_VERSION),
                             positions |-> JsNumber(7)])),
     JSONstringify(JsObject([version |-> JsNumber(SERIALIZATION_VERSION),
                             positions |-> JsObject([id \in {2} |-> JsNull])])),
     JSONstringify(JsObject([version |-> JsNumber(SERIALIZATION_VERSION),
                             positions |-> JsObject([id \in {1, 2} |->
                                 IF id = 1 THEN PointValue(Pt(U(40), 0)) ELSE JsNull])]))}

\* DragHandler.enable(): the listeners, and the marks on the node elements
\* that go with them
enable(h) ==
    IF h.bound THEN h
    ELSE [h EXCEPT !.bound = TRUE, !.boundTouch = (h.options.touchEnabled # "false")]

\* DragHandler.disable() leaving the listeners registered
disableKeepingListeners(h) == h

\* DragHandler.disable()
disable(h) == [h EXCEPT !.bound = FALSE, !.boundTouch = FALSE]

\* new DragHandler(container, nodes, edges, groups, options, source)
NewDragHandler(options, source) ==
    [exists |-> TRUE, options |-> options, source |-> source, bound |-> FALSE,
     boundTouch |-> FALSE, activeNode |-> None, isDragging |-> FALSE,
     dragOffset |-> Pt(0, 0)]

\* new InteractiveMermaid(container, options, source): a copy of the options;
\* dragHandler tells whether the field holds a handler
NewInstance(options, source) ==
    [exists |-> TRUE, options |-> options, source |-> source, isDestroyed |-> FALSE,
     dragHandler |-> FALSE]

\* initialize() of a live instance on a freshly rendered document and a
\* store: it parses, builds the handler, enables it unless disabled, and loads
\* a saved layout unless autoSave is false
initialize(i0, store, v, w, g, c) ==
    LET h0 == NewDragHandler(i0.options, i0.source)
        h1 == IF i0.options.disabled # "true" THEN enable(h0) ELSE h0
    IN  With(InitialDom(v, w, g, c),
             LAMBDA d0 :
        With(parseEdges(d0, Document, ParsedNodes),
             LAMBDA es0 :
        With(IF i0.options.autoSave # "false"
             THEN loadFromLocalStorage(store, i0.source, i0.options.storageKeyPrefix)
             ELSE JsNull,
             LAMBDA savedPositions :
        With(IF Truthy(savedPositions)
             THEN setPositionsValue(es0, ParsedNodes, d0, savedPositions)
             ELSE [threw |-> "none", nodes |-> ParsedNodes, edges |-> es0, dom |-> d0,
                   passes |-> <<>>],
             LAMBDA r :
                 [inst |-> [i0 EXCEPT !.dragHandler = TRUE], handler |-> h1,
                  nodes |-> r.nodes, edges |-> r.edges, dom |-> r.dom, parsed |-> es0,
                  groups |-> parseGroups(d0, Document, ParsedNodes),
                  threw |-> r.threw, passes |-> r.passes]))))

\* makeInteractive(container, options) on a document and a store: the instance
\* is built first, the wrapper goes into the caller's object after that, then
\* initialize(); the caller gets the instance unless initialize() throws
MakeInteractive(options, source, store, v, w, g, c) ==
    With(initialize(NewInstance(options, source), store, v, w, g, c),
         LAMBDA r :
             [closure |-> [exists |-> TRUE,
                           options |-> [options EXCEPT !.onDragEnd = "autosave"],
                           originalOnDragEnd |-> options.onDragEnd,
                           returned |-> (r.threw = "none")]] @@ r)

\* The documents the instance is made on
UIVariants == {<<1, 1, 1, 1>>, <<2, 2, 2, 1>>}

\* The stores makeInteractive finds: empty, or holding one of the texts under
\* the key of the diagram
Stores(source, prefix, texts) ==
    {<<>>} \cup {setItem(<<>>, generateStorageKey(source, prefix), text) : text \in texts}

\* What a call that may throw hands back: ret when it returns, else the error
Outcome(threw, ret) == IF threw = "none" THEN ret ELSE threw

\* makeInteractive on a store that is empty or holds a layout saved earlier
\* or one of the texts
MakeInteractiveOn(texts) ==
    \E o \in OptionSets, src \in Sources, t \in UIVariants :
      \E store \in Stores(src, o.storageKeyPrefix, {SavedLayout(src)} \cup texts) :
        \E m \in {MakeInteractive(o, src, store, t[1], t[2], t[3], t[4])} :
            /\ closure = m.closure
            /\ inst = m.inst
            /\ handler = m.handler
            /\ nodes = m.nodes
            /\ edges = m.edges
            /\ dom = m.dom
            /\ groups = m.groups
            /\ parsed = m.parsed
            /\ parser = <<Len(m.parsed)>>
            /\ pressed = NotPressed
            /\ originalPositions =
                   [id \in NodeIds |-> Pt(GetNode(ParsedNodes, id).originalX,
                                          GetNode(ParsedNodes, id).originalY)]
            /\ storage = store
            /\ calls = <<>>
            /\ call = Call(<<>>, Outcome(m.threw, "object"), m.passes)
            /\ lastOp = "makeInteractive"
            /\ stage = "parsed"
            /\ steps = 0

UIInit == MakeInteractiveOn({})

\* The number of events and instance calls explored after makeInteractive
MaxEvents == 3

\* One more event or call, as long as fewer than n were made
UIStepWithin(n) ==
    /\ steps < n
    /\ steps' = steps + 1
    /\ UNCHANGED <<parsed, parser>>

UIStep == UIStepWithin(MaxEvents)

\* Where on a node the pointer goes down, from the node's corner
GrabOffset == Pt(U(4), U(2))

\* The listeners of a kind of event ("mouse" or "touch") are registered
Bound(h, kind) == IF kind = "mouse" THEN h.bound ELSE h.boundTouch

Callback(cb, name) == IF cb = "none" THEN <<>> ELSE <<name>>

\* An event of a kind no listener is registered for: nothing runs
Unheard(event, kind, target) ==
    /\ lastOp' = "unheard"
    /\ calls' = <<>>
    /\ call' = Call(<<event, kind, target>>, "void", <<>>)
    /\ UNCHANGED <<trackerVars, handler, inst, storage, closure>>

\* A pointer press on a node element (target is the node's id) or on anything
\* else (target is None): handleMouseDown / handleTouchStart, then startDrag
PointerDownWithin(n) ==
    \E kind \in {"mouse", "touch"}, target \in NodeIds \cup {None} :
        /\ UIStepWithin(n)
        /\ pressed' = [pressed EXCEPT ![kind] = IF target = None THEN @ ELSE @ \cup {target}]
        /\ stage' = "later"
        /\ IF ~Bound(handler, kind) THEN Unheard("pointerdown", kind, target)
           ELSE /\ IF handler.options.disabled = "true" \/ target = None
                   THEN /\ lastOp' = "ignored"
                        /\ calls' = <<>>
                        /\ UNCHANGED handler
                   ELSE /\ handler' = [handler EXCEPT !.activeNode = target,
                                                      !.isDragging = TRUE,
                                                      !.dragOffset = GrabOffset]
                        /\ calls' = Callback(handler.options.onDragStart, "onDragStart")
                        /\ lastOp' = "startDrag"
                /\ call' = Call(<<"pointerdown", kind, target>>, "void", calls')
                /\ UNCHANGED <<trackerVars, inst, storage, closure>>

PointerDown == PointerDownWithin(MaxEvents)

\* Math.round(n / grid) * grid
Snap(n, grid) == ((2 * n + grid) \div (2 * grid)) * grid

\* updateDrag(clientX, clientY) with the pointer at p: the position is snapped
\* to the grid, written to the node and applied, then onDragMove is called
updateDrag(h, es, ns, gs, d, p) ==
    LET id   == h.activeNode
        rawX == p.x - h.dragOffset.x
        rawY == p.y - h.dragOffset.y
        grid == h.options.gridSize
        newX == IF grid > 0 THEN Snap(rawX, grid) ELSE rawX
        newY == IF grid > 0 THEN Snap(rawY, grid) ELSE rawY
    IN  With(updateNodePosition(ns, id, newX, newY),
             LAMBDA ns1 :
                 [nodes |-> ns1,
                  calls |-> Callback(h.options.onDragMove, "onDragMove"),
                  passes |-> <<"updateNodePosition", "applyPositionUpdates">>
                             \o Callback(h.options.onDragMove, "onDragMove")]
                 @@ applyPositionUpdates(es, ns1, d))

\* A pointer move: handleMouseMove / handleTouchMove, then updateDrag.  The
\* pointer is where it puts the grabbed node at a displacement from its
\* original position
PointerMoveWithin(n) ==
    \E kind \in {"mouse", "touch"}, delta \in Deltas :
        /\ UIStepWithin(n)
        /\ UNCHANGED pressed
        /\ stage' = "later"
        /\ IF ~Bound(handler, kind) THEN Unheard("pointermove", kind, None)
           ELSE /\ IF handler.activeNode = None \/ ~handler.isDragging
                   THEN /\ lastOp' = "ignored"
                        /\ calls' = <<>>
                        /\ call' = Call(<<"pointermove", kind, None>>, "void", <<>>)
                        /\ UNCHANGED <<nodes, edges, dom>>
                   ELSE \E r \in {updateDrag(handler, edges, nodes, groups, dom,
                                             addPoint(addPoint(
                                                 originalPositions[handler.activeNode],
                                                 delta), GrabOffset))} :
                            /\ nodes' = r.nodes
                            /\ edges' = r.edges
                            /\ dom' = r.dom
                            /\ calls' = r.calls
                            /\ call' = Call(<<"pointermove", kind, None>>, "void", r.passes)
                            /\ lastOp' = "updateDrag"
                /\ UNCHANGED <<originalPositions, groups, handler, inst, storage, closure>>

PointerMove == PointerMoveWithin(MaxEvents)

\* The onDragEnd the handler holds, called with getCurrentState(): the user's
\* callback, or the wrapper of makeInteractive, which saves and then calls the
\* user's
onDragEnd(cb, store, ns, source, now) ==
    IF cb = "autosave"
    THEN [storage |-> IF closure.options.autoSave # "false"
                      THEN saveToLocalStorage(store, PositionsValue(getAllPositions(ns)),
                                              source, closure.options.storageKeyPrefix, now)
                      ELSE store,
          calls |-> <<"autosave">> \o Callback(closure.originalOnDragEnd, "onDragEnd")]
    ELSE [storage |-> store, calls |-> Callback(cb, "onDragEnd")]

\* endDrag() without the polish pass
endDragNoPolish(h, es, ns, gs, d, store, now) ==
    With(onDragEnd(h.options.onDragEnd, store, ns, h.source, now),
         LAMBDA e :
             [edges |-> es, dom |-> d, storage |-> e.storage, calls |-> e.calls,
              passes |-> e.calls,
              handler |-> [h EXCEPT !.activeNode = None, !.isDragging = FALSE]])

\* endDrag() with a node active: the polish pass unless polishOnDragEnd is
\* false, then onDragEnd, then the drag state is cleared
endDrag(h, es, ns, gs, d, store, now) ==
    With(IF h.options.polishOnDragEnd # "false"
         THEN [passes |-> <<"polishLayout">>] @@ polishLayout(es, ns, gs, d)
         ELSE [passes |-> <<>>, edges |-> es, dom |-> d],
         LAMBDA r :
    With(onDragEnd(h.options.onDragEnd, store, ns, h.source, now),
         LAMBDA e :
             [edges |-> r.edges, dom |-> r.dom, storage |-> e.storage, calls |-> e.calls,
              passes |-> r.passes \o e.calls,
              handler |-> [h EXCEPT !.activeNode = None, !.isDragging = FALSE]]))

\* A pointer release: handleMouseUp / handleTouchEnd, then endDrag
PointerUpWithin(n) ==
    \E kind \in {"mouse", "touch"} :
        /\ UIStepWithin(n)
        /\ pressed' = [pressed EXCEPT ![kind] = {}]
        /\ stage' = "later"
        /\ IF ~Bound(handler, kind) THEN Unheard("pointerup", kind, None)
           ELSE /\ IF handler.activeNode = None
                   THEN /\ lastOp' = "ignored"
                        /\ calls' = <<>>
                        /\ call' = Call(<<"pointerup", kind, None>>, "void", <<>>)
                        /\ UNCHANGED <<edges, dom, handler, storage>>
                   ELSE \E e \in {endDrag(handler, edges, nodes, groups, dom, storage,
                                          steps + 1)} :
                            /\ edges' = e.edges
                            /\ dom' = e.dom
                            /\ storage' = e.storage
                            /\ calls' = e.calls
                            /\ call' = Call(<<"pointerup", kind, None>>, "void", e.passes)
                            /\ handler' = e.handler
                            /\ lastOp' = "endDrag"
                /\ UNCHANGED <<nodes, originalPositions, groups, inst, closure>>

PointerUp == PointerUpWithin(MaxEvents)

\* A method of the instance is called: the caller holds the instance
InstanceCallWithin(name, n) ==
    /\ closure.returned
    /\ UIStepWithin(n)
    /\ UNCHANGED pressed
    /\ lastOp' = name
    /\ calls' = <<>>
    /\ stage' = "later"

InstanceCall(name) == InstanceCallWithin(name, MaxEvents)

\* instance.setEnabled(enabled)
SetEnabledWithin(n) ==
    \E enabled \in BOOLEAN :
        LET nextDisabled == IF enabled THEN "false" ELSE "true"
        IN  /\ InstanceCallWithin("setEnabled", n)
            /\ IF inst.isDestroyed \/ inst.options.disabled = nextDisabled
               THEN UNCHANGED <<inst, handler>>
               ELSE /\ inst' = [inst EXCEPT !.options.disabled = nextDisabled]
                    /\ handler' = IF ~inst.dragHandler THEN handler
                                  ELSE IF enabled THEN enable(handler) ELSE disable(handler)
            /\ call' = Call(<<enabled>>, "void", <<>>)
            /\ UNCHANGED <<trackerVars, storage, closure>>

SetEnabled == SetEnabledWithin(MaxEvents)

\* The mappings instance.setPositions is called with
PositionValues ==
    {JsObject([id \in {entries[k].id : k \in DOMAIN entries} |->
                  LET k == CHOOSE j \in DOMAIN entries : entries[j].id = id
                  IN  PointValue(Pt(entries[k].x, entries[k].y))]) :
        entries \in PositionRecords}

\* instance.setPositions(positions)
InstanceSetPositions ==
    \E v \in PositionValues :
        /\ InstanceCall("instance.setPositions")
        /\ IF inst.isDestroyed \/ ~inst.dragHandler
           THEN /\ call' = Call(<<v>>, "void", <<>>)
                /\ UNCHANGED <<nodes, edges, dom>>
           ELSE \E r \in {setPositionsValue(edges, nodes, dom, v)} :
                    /\ nodes' = r.nodes
                    /\ edges' = r.edges
                    /\ dom' = r.dom
                    /\ call' = Call(<<v>>, Outcome(r.threw, "void"), r.passes)
        /\ UNCHANGED <<originalPositions, groups, handler, inst, storage, closure>>

\* instance.resetPositions(): tracker.resetAllPositions(), then
\* tracker.applyPositionUpdates()
resetPositions(es, ns, d, ops) ==
    With(resetAllPositions(ns, ops),
         LAMBDA ns1 :
             [nodes |-> ns1, passes |-> <<"resetAllPositions", "applyPositionUpdates">>]
             @@ applyPositionUpdates(es, ns1, d))

InstanceResetPositions ==
    /\ InstanceCall("instance.resetPositions")
    /\ IF inst.isDestroyed \/ ~inst.dragHandler
       THEN /\ call' = NoCall
            /\ UNCHANGED <<nodes, edges, dom>>
       ELSE \E r \in {resetPositions(edges, nodes, dom, DOMAIN originalPositions)} :
                /\ nodes' = r.nodes
                /\ edges' = r.edges
                /\ dom' = r.dom
                /\ call' = Call(<<>>, "void", r.passes)
    /\ UNCHANGED <<originalPositions, groups, handler, inst, storage, closure>>

\* instance.getPositions()
getPositions(i, ns) ==
    IF i.isDestroyed \/ ~i.dragHandler THEN <<>> ELSE getAllPositions(ns)

GetPositions ==
    /\ InstanceCall("getPositions")
    /\ call' = [Call(<<>>, "object", <<>>) EXCEPT !.value = getPositions(inst, nodes)]
    /\ UNCHANGED <<trackerVars, handler, inst, storage, closure>>

\* instance.destroy()
Destroy ==
    /\ InstanceCall("destroy")
    /\ IF inst.isDestroyed
       THEN UNCHANGED <<inst, handler>>
       ELSE /\ handler' = IF inst.dragHandler THEN disable(handler) ELSE handler
            /\ inst' = [inst EXCEPT !.dragHandler = FALSE, !.isDestroyed = TRUE]
    /\ call' = NoCall
    /\ UNCHANGED <<trackerVars, storage, closure>>

\* instance.update(source) after the container was rendered anew: an error on
\* a destroyed instance; else the old handler is destroyed and initialize()
\* runs on the new document
Update ==
    \E src \in Sources, t \in UIVariants :
        /\ closure.returned
        /\ steps < MaxEvents
        /\ steps' = steps + 1
        /\ lastOp' = "update"
        /\ calls' = <<>>
        /\ stage' = "later"
        /\ IF inst.isDestroyed
           THEN /\ call' = Call(<<src>>, "Error", <<>>)
                /\ UNCHANGED <<trackerVars, handler, inst, parsed, parser>>
           ELSE \E r \in {initialize([inst EXCEPT !.source = src], storage,
                                     t[1], t[2], t[3], t[4])} :
                    /\ inst' = r.inst
                    /\ handler' = r.handler
                    /\ nodes' = r.nodes
                    /\ edges' = r.edges
                    /\ dom' = r.dom
                    /\ groups' = r.groups
                    /\ parsed' = r.parsed
                    /\ parser' = <<Len(r.parsed)>>
                    /\ call' = Call(<<src>>, Outcome(r.threw, "void"), r.passes)
                    /\ UNCHANGED originalPositions
        /\ UNCHANGED <<storage, closure, pressed>>

UINext ==
    \/ PointerDown
    \/ PointerMove
    \/ PointerUp
    \/ SetEnabled
    \/ InstanceSetPositions
    \/ InstanceResetPositions
    \/ GetPositions
    \/ Destroy
    \/ Update

SpecUI == UIInit /\ [][UINext]_vars

----------------------------------------------------------------------------
(* Import of a persisted layout: makeInteractive on a store that may hold a *)
(* text that is no layout, and update() calls that load from it again.      *)

ImportInit == MakeInteractiveOn(MalformedTexts)

ImportNext ==
    \/ Update
    \/ GetPositions

SpecImport == ImportInit /\ [][ImportNext]_vars

----------------------------------------------------------------------------
(* The serializer on its own: generateStorageKey on pairs of sources, and  *)
(* serialize followed by deserialize on position mappings.                 *)

\* No diagram, handler or instance
Quiet ==
    /\ nodes = <<>>
    /\ originalPositions = <<>>
    /\ edges = <<>>
    /\ groups = <<>>
    /\ dom = <<>>
    /\ stage = "parsed"
    /\ handler = NoHandler
    /\ inst = NoHandler
    /\ storage = <<>>
    /\ calls = <<>>
    /\ closure = NoHandler
    /\ steps = 0

\* The length of the sources keys are generated for
MaxSourceLen == 2

SourceChars == {"A", "B", "a"}

RECURSIVE StringsUpTo(_)
StringsUpTo(n) ==
    IF n = 0 THEN {<<>>}
    ELSE With(StringsUpTo(n - 1),
              LAMBDA shorter : shorter \cup {Append(str, ch) : str \in shorter, ch \in SourceChars})

SourceTexts == StringsUpTo(MaxSourceLen)

Prefixes == {<<>>, <<"p">>}

\* The coordinates of the mappings serialized: numbers, and the numbers that
\* are not finite
CoordinateValues == {JsNumber(0), JsNumber(U(40)), JsNumber(-3), JsNaN, JsInfinity}

PointValues == {JsObject([x |-> a, y |-> b]) : a, b \in CoordinateValues}

PositionMappings ==
    {JsObject(f) : f \in UNION {[ids -> PointValues] : ids \in SUBSET {1, 2}}}

\* The inputs are drawn first: two sources and a prefix, or a position
\* mapping and a source
SerializerInit ==
    /\ Quiet
    /\ parsed = <<>>
    /\ parser = <<>>
    /\ pressed = NotPressed
    /\ \/ \E source1 \in SourceTexts, source2 \in SourceTexts, prefix \in Prefixes :
              /\ lastOp = "sources"
              /\ call = Call(<<source1, source2, prefix>>, "void", <<>>)
       \/ \E positions \in PositionMappings, source \in Sources :
              /\ lastOp = "positions"
              /\ call = Call(<<positions, source>>, "void", <<>>)

\* generateStorageKey(source1, prefix) and generateStorageKey(source2, prefix)
GenerateStorageKeys ==
    /\ lastOp = "sources"
    /\ lastOp' = "generateStorageKey"
    /\ call' = [call EXCEPT !.ret = "object",
                            !.value = <<generateStorageKey(call.args[1], call.args[3]),
                                        generateStorageKey(call.args[2], call.args[3])>>]
    /\ UNCHANGED <<trackerVars, stage, handler, inst, storage, calls, closure, steps,
                   parsed, parser, pressed>>

\* deserialize(serialize(positions, source), source)
RoundTrip ==
    /\ lastOp = "positions"
    /\ lastOp' = "deserialize"
    /\ call' = [call EXCEPT !.ret = "object",
                            !.value = deserialize(serialize(call.args[1], call.args[2], steps),
                                                  call.args[2])]
    /\ UNCHANGED <<trackerVars, stage, handler, inst, storage, calls, closure, steps,
                   parsed, parser, pressed>>

SerializerNext ==
    \/ GenerateStorageKeys
    \/ RoundTrip

SpecSerializer == SerializerInit /\ [][SerializerNext]_vars

----------------------------------------------------------------------------
(* The parser on its own: parse() on the documents, in any order, on       *)
(* either of two SvgParser objects.                                        *)

RECURSIVE ToString10(_)
\* `${n}` for an integer n
ToString10(n) ==
    IF n < 0 THEN <<"-">> \o ToString10(-n)
    ELSE IF n < 10 THEN <<Digits36[n + 1]>>
    ELSE Append(ToString10(n \div 10), Digits36[(n % 10) + 1])

\* Math.round of a coordinate in ticks, in user units
Round(n) == (n + 2) \div 4

\* The text content of the label of a node: N1 reads A, N2 reads B, N3 has none
NodeLabel(id) == CASE id = 1 -> <<"A">> [] id = 2 -> <<"B">> [] OTHER -> <<>>

generateNodeId(bbox, label) ==
    <<"n", "o", "d", "e", "-">>
    \o simpleHash(ToString10(Round(bbox.x)) \o <<",">> \o ToString10(Round(bbox.y))
                  \o <<",">> \o label)

generateGroupId(bbox, label) ==
    <<"g", "r", "o", "u", "p", "-">>
    \o simpleHash(ToString10(Round(bbox.x)) \o <<",">> \o ToString10(Round(bbox.y))
                  \o <<",">> \o ToString10(Round(bbox.width)) \o <<",">>
                  \o ToString10(Round(bbox.height)) \o <<",">> \o label)

\* parse(svg) without the reset of edgeCounter
parseKeepingCounter(c, d, doc) ==
    With(parseEdgesAt(c, d, doc, ParsedNodes),
         LAMBDA es :
             [nodes |-> ParsedNodes, edges |-> es, groups |-> parseGroups(d, doc, ParsedNodes),
              edgeCounter |-> c + Len(es)])

\* parse(svg) on a parser whose edgeCounter is c: the counter is set to 0,
\* then the nodes, the edges and the groups are built
parse(c, d, doc) ==
    With(parseEdgesAt(0, d, doc, ParsedNodes),
         LAMBDA es :
             [nodes |-> ParsedNodes, edges |-> es, groups |-> parseGroups(d, doc, ParsedNodes),
              edgeCounter |-> 0 + Len(es)])

\* The identifiers of a parse result, in order: of the nodes, the edges and
\* the groups.  The labels of the groups of these documents are empty.
Identifiers(r) ==
    [nodes  |-> [i \in DOMAIN r.nodes |->
                    generateNodeId(NodeOriginalBox(r.nodes[i]), NodeLabel(r.nodes[i].id))],
     edges  |-> [i \in DOMAIN r.edges |->
                    <<"e", "d", "g", "e", "-">> \o ToString10(r.edges[i].id)],
     groups |-> [i \in DOMAIN r.groups |->
                    generateGroupId([x |-> r.groups[i].originalX, y |-> r.groups[i].originalY,
                                     width |-> r.groups[i].originalWidth,
                                     height |-> r.groups[i].originalHeight], <<>>)]]

\* Two parsers, just constructed
ParseInit ==
    /\ Quiet
    /\ call = NoCall
    /\ parser = <<0, 0>>
    /\ pressed = NotPressed
    /\ parsed = <<>>
    /\ lastOp = "new"

\* parser.parse(svg) on one of the parsers and one of the documents; the call
\* is recorded with whether the document was parsed before
Parse ==
    \E p \in DOMAIN parser, t \in Variants :
        \E r \in {parse(parser[p], InitialDom(t[1], t[2], t[3], t[4]), Document)} :
            \E ids \in {Identifiers(r)} :
                /\ steps < MaxSteps
                /\ steps' = steps + 1
                /\ parser' = [parser EXCEPT ![p] = r.edgeCounter]
                /\ call' = [Call(<<p, t, t \in DOMAIN parsed>>, "object", <<>>)
                               EXCEPT !.value = ids]
                /\ parsed' = IF t \in DOMAIN parsed THEN parsed ELSE setItem(parsed, t, ids)
                /\ lastOp' = "parse"
                /\ UNCHANGED <<trackerVars, stage, handler, inst, storage, calls, closure,
                               pressed>>

SpecParse == ParseInit /\ [][Parse]_vars

----------------------------------------------------------------------------
(* createEdge on its own: one connector between two points of a plane that *)
(* holds nodes whose reaches overlap.                                      *)

\* The node lists: N1 beside a tall N2, the same two in the other order, and
\* the three nodes of the documents above
Layouts ==
    << <<ParsedNode(1, <<>>, 0, 0, 40, 20), ParsedNode(2, <<>>, 60, 0, 20, 80)>>,
       <<ParsedNode(2, <<>>, 60, 0, 20, 80), ParsedNode(1, <<>>, 0, 0, 40, 20)>>,
       ParsedNodes >>

\* Where a connector starts or ends: on the rim of N1's reach and one unit or
\* one tick inside it, on the rim of N2's reach and one unit inside it, at the
\* center of N1, at a corner of N2 and far from every node
EndPoints ==
    {Pt(U(70), U(10)), Pt(U(69), U(10)), Pt(U(70) - 1, U(10)), Pt(U(50), U(50)),
     Pt(U(140), U(40)), Pt(U(139), U(40)), Pt(U(20), U(10)), Pt(U(60), U(80)),
     Pt(-U(40), U(10))}

EndpointsInit ==
    /\ \E l \in DOMAIN Layouts : nodes = Layouts[l]
    /\ \E p \in EndPoints, q \in EndPoints :
           dom = <<Element("polyline", <<p.x, p.y, q.x, q.y>>, NoAttr)>>
    /\ originalPositions = <<>>
    /\ edges = <<>>
    /\ groups = <<>>
    /\ stage = "parsed"
    /\ handler = NoHandler
    /\ inst = NoHandler
    /\ storage = <<>>
    /\ calls = <<>>
    /\ closure = NoHandler
    /\ steps = 0
    /\ parsed = <<>>
    /\ parser = <<0>>
    /\ pressed = NotPressed
    /\ call = NoCall
    /\ lastOp = "new"

\* createEdge(element, points, nodes) on the connector of the document
CreateEdge ==
    /\ steps = 0
    /\ steps' = 1
    /\ edges' = <<createEdge(parser[1], 1, UnflattenPoints(dom[1].geom), nodes)>>
    /\ parser' = <<parser[1] + 1>>
    /\ call' = Call(<<1>>, "object", <<>>)
    /\ lastOp' = "createEdge"
    /\ UNCHANGED <<nodes, originalPositions, groups, dom, stage, parsed, uiVars>>

SpecEndpoints == EndpointsInit /\ [][CreateEdge]_vars

----------------------------------------------------------------------------
(* The identifiers of the nodes: parse() on documents of two or three      *)
(* rectangles without texts, then new NodeTracker on the nodes it returns. *)

\* The documents: a wide and a tall rectangle that share their upper left
\* corner, the same pair with the wide one a quarter unit to the right, two
\* nodes one above the other, and three nodes
IdDoms ==
    {<<NodeRect(0, 0, 100, 16), NodeRect(0, 0, 16, 100)>>,
     <<Painted(Element("rect", <<1, 0, U(100), U(16)>>, NoAttr),
               CssVar("_node-fill"), CssVar("_node-stroke")),
       NodeRect(0, 0, 16, 100)>>,
     <<NodeRect(0, 0, 40, 20), NodeRect(0, 100, 40, 20)>>,
     <<NodeRect(0, 0, 40, 20), NodeRect(0, 100, 40, 20), NodeRect(120, 100, 40, 20)>>}

\* parseNodes with the identifier generateNodeId gives each node; a node
\* without a label element has the label ''
parseNodesWithIds(d) ==
    With(parseNodes(d),
         LAMBDA ns : [i \in DOMAIN ns |->
                         [ns[i] EXCEPT !.id = generateNodeId(NodeOriginalBox(ns[i]), <<>>)]])

RECURSIVE MapSet(_, _, _)
\* this.nodes.set(node.id, node) for each node of the list: a key that is in
\* the map keeps its place and gets the new value
MapSet(map, list, i) ==
    IF i > Len(list) THEN map
    ELSE With(IF HasNode(map, list[i].id)
              THEN [k \in DOMAIN map |-> IF map[k].id = list[i].id THEN list[i] ELSE map[k]]
              ELSE Append(map, list[i]),
              LAMBDA next : MapSet(next, list, i + 1))

\* new NodeTracker(nodes, [], []) on the nodes parse() returns
IdsInit ==
    /\ \E d \in IdDoms : dom = d
    /\ parsed = parseNodesWithIds(dom)
    /\ nodes = MapSet(<<>>, parsed, 1)
    /\ originalPositions =
           [id \in {nodes[i].id : i \in DOMAIN nodes} |->
               Pt(GetNode(nodes, id).originalX, GetNode(nodes, id).originalY)]
    /\ edges = <<>>
    /\ groups = <<>>
    /\ parser = <<0>>
    /\ pressed = NotPressed
    /\ lastOp = "new"
    /\ stage = "parsed"
    /\ handler = NoHandler
    /\ inst = NoHandler
    /\ storage = <<>>
    /\ calls = <<>>
    /\ closure = NoHandler
    /\ steps = 0
    /\ call = NoCall

\* updateNodePosition with the identifier of a node of the parse result, and
\* applyPositionUpdates()
IdsNext ==
    \/ UpdateNodePositionBy({<<parsed[k].id, dl>> : k \in DOMAIN parsed, dl \in Deltas})
    \/ ApplyPositionUpdates

SpecIds == IdsInit /\ [][IdsNext]_vars

----------------------------------------------------------------------------
(* A drag with setEnabled calls in between: the instance made with the      *)
(* default options on the first document and an empty store, the mouse     *)
(* alone, and longer runs of events than above.                            *)

\* The number of events and setEnabled calls explored
MaxDragEvents == 5

DragInit ==
    /\ UIInit
    /\ inst.options = Options("unset", <<>>, "unset", "unset", "unset", 0, "user")
    /\ inst.source = <<>>
    /\ storage = <<>>
    /\ dom = InitialDom(1, 1, 1, 1)

DragNext ==
    \/ PointerDownWithin(MaxDragEvents) /\ call'.args[2] = "mouse" /\ call'.args[3] # 3
    \/ PointerMoveWithin(MaxDragEvents) /\ call'.args[2] = "mouse"
    \/ PointerUpWithin(MaxDragEvents) /\ call'.args[2] = "mouse"
    \/ SetEnabledWithin(MaxDragEvents)

SpecDrag == DragInit /\ [][DragNext]_vars

----------------------------------------------------------------------------
(* The store on its own: layouts saved under several prefixes, then        *)
(* clearAllSavedLayouts for one of them.                                   *)

\* The prefixes layouts are saved under; <<>> is the absent prefix
StorePrefixes == {<<>>, <<"p">>, <<"p", "q">>, <<"q">>}

\* key.startsWith(prefix)
startsWith(key, prefix) ==
    /\ Len(key) >= Len(prefix)
    /\ SubSeq(key, 1, Len(prefix)) = prefix

\* getAllSavedLayoutKeys(storageKeyPrefix)
getAllSavedLayoutKeys(store, prefix) ==
    {key \in DOMAIN store :
        startsWith(key, IF prefix = <<>> THEN DefaultPrefix ELSE prefix)}

\* clearAllSavedLayouts(storageKeyPrefix): removeItem for each of the keys
clearAllSavedLayouts(store, prefix) ==
    With(getAllSavedLayoutKeys(store, prefix),
         LAMBDA keys : [key \in DOMAIN store \ keys |-> store[key]])

\* A store that holds, for some of the prefixes and sources, the layout
\* saved for the source under the prefix
StoreInit ==
    /\ nodes = <<>>
    /\ originalPositions = <<>>
    /\ edges = <<>>
    /\ groups = <<>>
    /\ dom = <<>>
    /\ stage = "parsed"
    /\ handler = NoHandler
    /\ inst = NoHandler
    /\ calls = <<>>
    /\ closure = NoHandler
    /\ steps = 0
    /\ \E saved \in SUBSET (StorePrefixes \X Sources) :
           storage = [key \in {generateStorageKey(e[2], e[1]) : e \in saved} |->
                         LET e == CHOOSE e \in saved : generateStorageKey(e[2], e[1]) = key
                         IN  SavedLayout(e[2])]
    /\ parsed = <<>>
    /\ parser = <<>>
    /\ pressed = NotPressed
    /\ call = NoCall
    /\ lastOp = "new"

ClearAllSavedLayouts ==
    \E prefix \in StorePrefixes :
        /\ steps = 0
        /\ steps' = 1
        /\ storage' = clearAllSavedLayouts(storage, prefix)
        /\ call' = Call(<<prefix>>, "void", <<>>)
        /\ lastOp' = "clearAllSavedLayouts"
        /\ UNCHANGED <<trackerVars, stage, handler, inst, calls, closure, parsed, parser,
                       pressed>>

SpecStore == StoreInit /\ [][ClearAllSavedLayouts]_vars

----------------------------------------------------------------------------
(* Properties *)

\* The operations that end with a full applyPositionUpdates() pass
AfterApply == lastOp \in {"applyPositionUpdates", "setPositions"}

NodeDelta(n) == Pt(n.x - n.originalX, n.y - n.originalY)

\* The translation an element must carry for a displacement (dx, dy) of whole ticks
ExpectedTranslation(delta) ==
    IF delta.x = 0 /\ delta.y = 0 THEN <<>> ELSE <<delta.x, delta.y, 1>>

\* C1: after applyPositionUpdates(), every element of every node carries a
\* translation of exactly (x - originalX, y - originalY), and no translation
\* when that displacement is (0, 0).
C1_NodeTranslation ==
    AfterApply =>
        \A i \in DOMAIN nodes : \A k \in DOMAIN nodes[i].elements :
            TranslationOf(dom[nodes[i].elements[k]]) = ExpectedTranslation(NodeDelta(nodes[i]))

\* The tracker without the polish pass: node moves and applyPositionUpdates()
NextMoves ==
    \/ UpdateNodePosition
    \/ ApplyPositionUpdates
    \/ ResetAllPositions
    \/ SetPositions

SpecMoves == Init /\ [][NextMoves]_vars

BothResolved(e) ==
    /\ e.sourceNodeId # None /\ HasNode(nodes, e.sourceNodeId)
    /\ e.targetNodeId # None /\ HasNode(nodes, e.targetNodeId)

\* C2: for every edge with both endpoints resolved, after any sequence of node
\* moves and applyPositionUpdates(), the first point is the source node's
\* current centre plus the cached source offset and the last point is the
\* target node's current centre plus the cached target offset.
C2_EndpointsFollowNodes ==
    AfterApply =>
        \A i \in DOMAIN edges :
            BothResolved(edges[i]) =>
                /\ edges[i].sourceOffset # <<>>
                /\ edges[i].targetOffset # <<>>
                /\ edges[i].points[1] =
                       addPoint(Center(GetNode(nodes, edges[i].sourceNodeId)),
                                edges[i].sourceOffset[1])
                /\ Last(edges[i].points) =
                       addPoint(Center(GetNode(nodes, edges[i].targetNodeId)),
                                edges[i].targetOffset[1])

\* An apply pass after both nodes of an edge were moved, by different amounts
C2_Witness ==
    /\ lastOp = "applyPositionUpdates"
    /\ \E i \in DOMAIN edges :
           /\ BothResolved(edges[i])
           /\ NodeDelta(GetNode(nodes, edges[i].sourceNodeId)) = DeltaList[1]
           /\ NodeDelta(GetNode(nodes, edges[i].targetNodeId)) = DeltaList[2]
           /\ Len(edges[i].points) = 3

\* C3: in every reachable state of the tracker, every edge's point list has at
\* least 2 entries.
C3_AtLeastTwoPoints ==
    \A i \in DOMAIN edges : Len(edges[i].points) >= 2

Orthogonal(points) ==
    \A k \in 1..(Len(points) - 1) :
        \/ Abs(points[k + 1].x - points[k].x) < AxisTol
        \/ Abs(points[k + 1].y - points[k].y) < AxisTol

\* C4: after polishLayout(), every pair of consecutive points of every edge
\* (polyline or line) differs by less than 1 unit on at least one axis.
C4_NoDiagonalAfterPolish ==
    lastOp = "polishLayout" => \A i \in DOMAIN edges : Orthogonal(edges[i].points)

\* What a pass leaves behind that can be observed: the point lists of the edges
\* and the coordinates and transform of every element
Observed(es, d) ==
    [points |-> [i \in DOMAIN es |-> es[i].points],
     geom |-> [k \in DOMAIN d |-> d[k].geom],
     transform |-> [k \in DOMAIN d |-> d[k].transform]]

\* C5: applyPositionUpdates() is idempotent: after a call, a second call with no
\* position change in between leaves the edge point lists, the connector
\* coordinates and the element transforms as the first call left them.
C5_ApplyIdempotent ==
    AfterApply =>
        LET again == applyPositionUpdates(edges, nodes, dom)
        IN  Observed(again.edges, again.dom) = Observed(edges, dom)

\* A first call that had work to do: with a node moved, it has bent the
\* two-point connector 1 and translated its label
C5_Witness ==
    /\ lastOp = "applyPositionUpdates"
    /\ Len(edges[1].points) = 3
    /\ edges[1].firstSegmentVertical # edges[1].lastSegmentVertical
    /\ Len(dom[edges[1].element].geom) = 6
    /\ edges[1].labelElement # None
    /\ TranslationOf(dom[edges[1].labelElement]) # <<>>

\* The nodes moved away from their original position
MovedNodes == {i \in DOMAIN nodes : NodeDelta(nodes[i]) # Pt(0, 0)}

Touches(e, n) == e.sourceNodeId = n.id \/ e.targetNodeId = n.id

LabelElements(e) == {e.labelElement, e.labelBackground} \ {None}

\* C6: when a single node is moved by (dx, dy) and applyPositionUpdates() runs,
\* the label (text and background) of every edge with an endpoint resolved to
\* that node is translated by exactly (dx, dy).
C6_LabelMovesWithNode ==
    stage = "applied" =>
        \A n \in MovedNodes : \A i \in DOMAIN edges :
            Touches(edges[i], nodes[n]) =>
                \A el \in LabelElements(edges[i]) :
                    TranslationOf(dom[el]) = ExpectedTranslation(NodeDelta(nodes[n]))

\* The translation of a label placed at fraction tn / td of the path: the point
\* there plus the parsed offset, less the parsed anchor
LabelTranslation(e) ==
    LET p  == pointOnPolyline(e.points, e.labelInfo.tn, e.labelInfo.td)
        tx == p.x + (e.labelInfo.offset.x - e.labelInfo.anchor.x) * e.labelInfo.td
        ty == p.y + (e.labelInfo.offset.y - e.labelInfo.anchor.y) * e.labelInfo.td
        tk == TranslateToken(tx, ty, e.labelInfo.td)
    IN  IF tx = 0 /\ ty = 0 THEN <<>> ELSE <<tk.x, tk.y, tk.den>>

\* The label sits at the end of the path that is attached to node n
LabelAtEndOn(e, n) ==
    \/ e.labelInfo.tn = e.labelInfo.td /\ e.targetNodeId = n.id
    \/ e.labelInfo.tn = 0 /\ e.sourceNodeId = n.id

\* C6, amended: when a single node is moved by (dx, dy) and
\* applyPositionUpdates() runs, the label (text and background) of every edge
\* with an endpoint resolved to that node is translated to the point at the
\* label's fraction of the updated path plus its parsed offset; that is
\* exactly (dx, dy) when the label sits at the end attached to the moved node.
C6_LabelFollowsPath ==
    stage = "applied" =>
        \A n \in MovedNodes : \A i \in DOMAIN edges :
            Touches(edges[i], nodes[n]) /\ edges[i].hasLabelInfo =>
                \A el \in LabelElements(edges[i]) :
                    /\ TranslationOf(dom[el]) = LabelTranslation(edges[i])
                    /\ LabelAtEndOn(edges[i], nodes[n]) =>
                           TranslationOf(dom[el]) = ExpectedTranslation(NodeDelta(nodes[n]))

\* One node moved and applied: a label at the middle of a connector attached to
\* it has moved, but not by the node's displacement
C6_Witness ==
    /\ stage = "applied"
    /\ \E n \in MovedNodes : \E i \in DOMAIN edges :
           /\ Touches(edges[i], nodes[n])
           /\ edges[i].labelElement # None /\ edges[i].labelBackground # None
           /\ TranslationOf(dom[edges[i].labelElement]) # <<>>
           /\ TranslationOf(dom[edges[i].labelElement]) # ExpectedTranslation(NodeDelta(nodes[n]))
           /\ TranslationOf(dom[edges[i].labelBackground]) =
                  TranslationOf(dom[edges[i].labelElement])

DecorationElements(e) == {e.decorations[k].element : k \in DOMAIN e.decorations}

\* C7: when a single node is moved and applyPositionUpdates() runs, every other
\* node keeps a zero translation, and every edge with no endpoint resolved to
\* the moved node keeps its parsed point list and its label and decorations
\* keep a zero translation.
C7_OthersUntouched ==
    stage = "applied" =>
        \A n \in MovedNodes :
            /\ \A i \in DOMAIN nodes \ {n} : \A k \in DOMAIN nodes[i].elements :
                   TranslationOf(dom[nodes[i].elements[k]]) = <<>>
            /\ \A i \in DOMAIN edges :
                   ~Touches(edges[i], nodes[n]) =>
                       /\ edges[i].points = parsed[i].points
                       /\ \A el \in LabelElements(edges[i]) \cup DecorationElements(edges[i]) :
                              TranslationOf(dom[el]) = <<>>

\* The members of a group the tracker knows
KnownMembers(g) ==
    {i \in DOMAIN nodes : \E k \in DOMAIN g.memberNodeIds : nodes[i].id = g.memberNodeIds[k]}

\* The box around the current boxes of the members, with the group's padding
PaddedUnion(g) ==
    LET M    == KnownMembers(g)
        minX == SetMin({nodes[i].x : i \in M})
        minY == SetMin({nodes[i].y : i \in M})
        maxX == SetMax({nodes[i].x + nodes[i].width : i \in M})
        maxY == SetMax({nodes[i].y + nodes[i].height : i \in M})
    IN  [x |-> minX - g.padding.left, y |-> minY - g.padding.top,
         width  |-> (maxX + g.padding.right) - (minX - g.padding.left),
         height |-> (maxY + g.padding.bottom) - (minY - g.padding.top)]

\* C8: after polishLayout(), for every group with at least one member known to
\* the tracker and a non-degenerate result, the container rectangle is the
\* union of the members' current boxes expanded by the group's padding, the
\* header rectangle has the same x, y and width, and the header label is at
\* (x, y) plus the group's label offset.
C8_GroupFitsMembers ==
    lastOp = "polishLayout" =>
        \A j \in DOMAIN groups :
            LET g == groups[j]
                b == PaddedUnion(g)
            IN  KnownMembers(g) # {} /\ b.width > 0 /\ b.height > 0 =>
                    /\ dom[g.outerRect].geom = <<b.x, b.y, b.width, b.height>>
                    /\ g.headerRect # None =>
                           SubSeq(dom[g.headerRect].geom, 1, 3) = <<b.x, b.y, b.width>>
                    /\ g.labelElement # None /\ g.labelOffset # <<>> =>
                           dom[g.labelElement].geom =
                               <<b.x + g.labelOffset[1].x, b.y + g.labelOffset[1].y>>

\* A polish pass over a group of two members that were moved apart, with a
\* header and a label
C8_Witness ==
    /\ lastOp = "polishLayout"
    /\ \E j \in DOMAIN groups :
           /\ Cardinality(KnownMembers(groups[j])) = 2
           /\ groups[j].headerRect # None /\ groups[j].labelElement # None
           /\ \E a, b \in KnownMembers(groups[j]) :
                  /\ NodeDelta(nodes[a]) = DeltaList[1]
                  /\ NodeDelta(nodes[b]) = DeltaList[2]
           /\ dom[groups[j].outerRect].geom[3] # groups[j].originalWidth

\* C9: if every member of a group has moved by the same delta, then after
\* polishLayout() the container, header and label origins are shifted by
\* exactly that delta from their original values, the container's width and
\* height are unchanged, and the container carries no transform attribute.
C9_GroupMovesWithMembers ==
    lastOp = "polishLayout" =>
        \A j \in DOMAIN groups : \A m \in KnownMembers(groups[j]) :
            LET g  == groups[j]
                dl == NodeDelta(nodes[m])
            IN  (\A o \in KnownMembers(g) : NodeDelta(nodes[o]) = dl) =>
                    /\ dom[g.outerRect].geom =
                           <<g.originalX + dl.x, g.originalY + dl.y,
                             g.originalWidth, g.originalHeight>>
                    /\ ~dom[g.outerRect].transform.has
                    /\ g.headerRect # None =>
                           SubSeq(dom[g.headerRect].geom, 1, 2) =
                               <<g.originalX + dl.x, g.originalY + dl.y>>
                    /\ g.labelElement # None /\ g.labelOffset # <<>> =>
                           dom[g.labelElement].geom =
                               <<g.originalX + g.labelOffset[1].x + dl.x,
                                 g.originalY + g.labelOffset[1].y + dl.y>>

\* A polish pass over a group whose two members were both moved by the same
\* displacement
C9_Witness ==
    /\ lastOp = "polishLayout"
    /\ \E j \in DOMAIN groups :
           /\ Cardinality(KnownMembers(groups[j])) = 2
           /\ groups[j].headerRect # None /\ groups[j].labelElement # None
           /\ \A m \in KnownMembers(groups[j]) : NodeDelta(nodes[m]) = DeltaList[1]
           /\ dom[groups[j].outerRect].geom[1] = groups[j].originalX + DeltaList[1].x

\* C10: for an instance created by makeInteractive with autoSave not set to
\* false, every completed drag stores the current positions of all nodes under
\* the key derived from the diagram source and the storage key prefix, and
\* calls the user's onDragEnd callback.
C10_DragEndSaves ==
    lastOp = "endDrag" /\ closure.options.autoSave # "false" =>
        LET key == generateStorageKey(inst.source, closure.options.storageKeyPrefix)
        IN  /\ key \in DOMAIN storage
            /\ deserialize(storage[key], inst.source)
                   = PositionsValue(getAllPositions(nodes))
            /\ closure.originalOnDragEnd = "user" => calls = <<"autosave", "onDragEnd">>

\* The text the instance loads: what the store holds under the key of the
\* diagram, if anything
LoadedText ==
    LET key == generateStorageKey(inst.source, inst.options.storageKeyPrefix)
    IN  IF key \in DOMAIN storage THEN <<storage[key]>> ELSE <<>>

\* An {x, y} pair of numbers
IsPoint(v) ==
    /\ v.t = "object"
    /\ DOMAIN v.f = {"x", "y"}
    /\ v.f["x"].t = "number"
    /\ v.f["y"].t = "number"

\* A persisted record that is no layout: not JSON, or JSON whose positions
\* are missing, are no mapping, or give a known node something that is not an
\* {x, y} pair of numbers
Malformed(text) ==
    \/ ~text.json
    \/ LET ps == Get(text.value, "positions")
       IN  \/ ps.t # "object"
           \/ \E id \in NodeIds : id \in DOMAIN ps.f /\ ~IsPoint(ps.f[id])

\* C11: when the persisted record found at initialization is malformed (not
\* JSON, or JSON whose positions are missing, no mapping, or give a known node
\* something that is not a pair of numbers), initialization raises no error
\* and every node keeps the position it was parsed with.
C11_MalformedImportIgnored ==
    /\ lastOp \in {"makeInteractive", "update"}
    /\ inst.options.autoSave # "false"
    /\ LoadedText # <<>>
    /\ Malformed(LoadedText[1])
    => /\ call.ret \in {"object", "void"}
       /\ getAllPositions(nodes) = getAllPositions(ParsedNodes)

\* C12: for a fixed prefix, generateStorageKey gives two distinct sources two
\* distinct keys.
C12_DistinctSourcesDistinctKeys ==
    lastOp = "generateStorageKey" /\ call.args[1] # call.args[2] =>
        call.value[1] # call.value[2]

Finite(v) == v.t = "number"

C14_ParseDeterministic ==
    lastOp = "parse" => call.value = parsed[call.args[2]]

\* a document with two edges is parsed again, on a parser that has parsed
\* another document since it was constructed
C14_Witness ==
    /\ lastOp = "parse"
    /\ call.args[3]
    /\ Cardinality(DOMAIN parsed) >= 2
    /\ Len(call.value.edges) = 2
    /\ steps >= 3

\* C15: updateNodePosition with an id the tracker does not hold returns false
\* and leaves nodes, original positions, edges, groups and elements as they
\* were; with an id it holds it returns true.
C15_UnknownIdRejected ==
    [][lastOp' = "updateNodePosition" =>
           IF HasNode(nodes, call'.args[1])
           THEN call'.ret = "true"
           ELSE /\ call'.ret = "false"
                /\ UNCHANGED <<nodes, originalPositions, edges, groups, dom>>]_vars

\* updateNodePosition has been called with an unknown id after a node was moved
C15_Witness ==
    /\ lastOp = "updateNodePosition"
    /\ ~HasNode(nodes, call.args[1])
    /\ call.ret = "false"
    /\ \E i \in DOMAIN nodes : NodeDelta(nodes[i]) # Pt(0, 0)

\* C16: setPositions(map) gives every tracked node whose id is a key the
\* coordinates of its entry, leaves every other node as it was, ignores keys
\* no node has, and then runs applyPositionUpdates() once.
C16_SetPositionsByKey ==
    [][lastOp' = "setPositions" =>
           LET entries == call'.args
               applied == applyPositionUpdates(edges, nodes', dom)
           IN  /\ Len(nodes') = Len(nodes)
               /\ \A i \in DOMAIN nodes :
                      LET hits == {k \in DOMAIN entries : entries[k].id = nodes[i].id}
                      IN  IF hits = {} THEN nodes'[i] = nodes[i]
                          ELSE \E k \in hits :
                                   nodes'[i] = [nodes[i] EXCEPT !.x = entries[k].x,
                                                                !.y = entries[k].y]
               /\ Cardinality({k \in DOMAIN call'.passes :
                                  call'.passes[k] = "applyPositionUpdates"}) = 1
               /\ Last(call'.passes) = "applyPositionUpdates"
               /\ edges' = applied.edges
               /\ dom' = applied.dom]_vars

\* setPositions has been called with a key of node 3 and a key no node has:
\* node 3 is where the entry puts it and its elements are translated
C16_Witness ==
    /\ lastOp = "setPositions"
    /\ \E k \in DOMAIN call.args : call.args[k].id = UnknownId
    /\ \E k \in DOMAIN call.args :
           /\ call.args[k].id = 3
           /\ GetNode(nodes, 3).x = call.args[k].x
           /\ GetNode(nodes, 3).x # GetNode(nodes, 3).originalX
    /\ TranslationOf(dom[GetNode(nodes, 3).elements[1]]) # <<>>

AtOriginal(n) == n.x = n.originalX /\ n.y = n.originalY

\* C17 as stated: when resetAllPositions() returns, every node is at its
\* original position, one applyPositionUpdates() has run, and so no element
\* of a node carries a translation any more.
C17_ResetReapplies ==
    lastOp = "resetAllPositions" =>
        /\ \A i \in DOMAIN nodes : AtOriginal(nodes[i])
        /\ Cardinality({k \in DOMAIN call.passes :
                           call.passes[k] = "applyPositionUpdates"}) = 1
        /\ \A i \in DOMAIN nodes : \A k \in DOMAIN nodes[i].elements :
               TranslationOf(dom[nodes[i].elements[k]]) = <<>>

\* C17, amended: resetAllPositions() calls updateNodePosition once for every
\* node and nothing else: when it returns every node is at its original
\* position, and the elements and the edges are as they were before the call.
C17_ResetMovesNodesOnly ==
    [][lastOp' = "resetAllPositions" =>
           /\ \A i \in DOMAIN nodes' : AtOriginal(nodes'[i])
           /\ Len(call'.passes) = Len(nodes)
           /\ \A k \in DOMAIN call'.passes : call'.passes[k] = "updateNodePosition"
           /\ UNCHANGED <<edges, dom>>]_vars

\* resetAllPositions() has returned with every node at its original position
\* while an element of a node still carries the translation of an earlier move
C17_Witness ==
    /\ lastOp = "resetAllPositions"
    /\ \A i \in DOMAIN nodes : AtOriginal(nodes[i])
    /\ \E i \in DOMAIN nodes : \E k \in DOMAIN nodes[i].elements :
           TranslationOf(dom[nodes[i].elements[k]]) # <<>>

Count(seq, x) == Cardinality({k \in DOMAIN seq : seq[k] = x})

\* The last step was an event of this name that a listener heard or not
Event(name) ==
    /\ lastOp \in {"startDrag", "updateDrag", "endDrag", "ignored", "unheard"}
    /\ call.args[1] = name

MouseDownOnNode ==
    /\ Event("pointerdown")
    /\ call.args[2] = "mouse"
    /\ call.args[3] # None

\* C19: on a live instance whose most recent setEnabled call was
\* setEnabled(true), a press on a node starts a drag of that node, also when
\* the instance was created with disabled: true; when the most recent call was
\* setEnabled(false), no press starts a drag.
C19_SetEnabledRules ==
    ~inst.isDestroyed /\ MouseDownOnNode =>
        /\ inst.options.disabled = "false" =>
               lastOp = "startDrag" /\ handler.activeNode = call.args[3]
        /\ inst.options.disabled = "true" => lastOp # "startDrag"

\* C20: once destroy() has returned, no event and no call changes a node, an
\* edge or an element; getPositions() returns an empty mapping, update()
\* raises an error, and destroy() changes nothing.
C20_DestroyedIsInert ==
    [][inst.isDestroyed =>
           /\ UNCHANGED <<nodes, edges, dom>>
           /\ lastOp' = "getPositions" => call'.value = <<>>
           /\ lastOp' = "update" => call'.ret = "Error"
           /\ lastOp' = "destroy" => UNCHANGED <<trackerVars, handler, inst, storage>>]_vars

\* the instance was destroyed while a node was being dragged, and a pointer
\* move has happened since
C20_Witness ==
    /\ inst.isDestroyed
    /\ handler.activeNode # None
    /\ Event("pointermove")
    /\ lastOp = "unheard"

----------------------------------------------------------------------------
(* Groups during the polish pass                                           *)

\* The elements of a group's chrome: container, header and label
Chrome(g) ==
    {g.outerRect} \cup (IF g.headerRect # None THEN {g.headerRect} ELSE {})
                  \cup (IF g.labelElement # None THEN {g.labelElement} ELSE {})

NoMembers(g, ns) == Len(g.memberNodeIds) = 0 \/ Len(Members(g.memberNodeIds, ns, 1)) = 0

Degenerate(g, ns) ==
    /\ ~NoMembers(g, ns)
    /\ LET box == GroupBox(g, Members(g.memberNodeIds, ns, 1))
       IN  box.width <= 0 \/ box.height <= 0

CenterInside(n, g) ==
    LET cx == n.originalX + n.width \div 2
        cy == n.originalY + n.height \div 2
    IN  /\ cx >= g.originalX - BBoxPad /\ cx <= g.originalX + g.originalWidth + BBoxPad
        /\ cy >= g.originalY - BBoxPad /\ cy <= g.originalY + g.originalHeight + BBoxPad

MembersAtParse(g, ns) == SelectSeq(ns, LAMBDA n : CenterInside(n, g))

\* The gap between the original container and the original boxes of its members
PaddingAtParse(g, ns) ==
    LET ms == MembersAtParse(g, ns)
        I  == DOMAIN ms
    IN  IF I = {} THEN [left |-> 0, top |-> 0, right |-> 0, bottom |-> 0]
        ELSE [left   |-> SetMin({ms[i].originalX : i \in I}) - g.originalX,
              top    |-> SetMin({ms[i].originalY : i \in I}) - g.originalY,
              right  |-> g.originalX + g.originalWidth
                         - SetMax({ms[i].originalX + ms[i].width : i \in I}),
              bottom |-> g.originalY + g.originalHeight
                         - SetMax({ms[i].originalY + ms[i].height : i \in I})]

\* C22: whatever tracker method has run and wherever the nodes are now, the
\* membership list of every group is the list of the nodes whose original
\* center lay in the container at reconstruction, and its padding is the gap
\* between the original container and the original boxes of those nodes; no
\* step changes the groups.
C22_MembershipAndPaddingFixed ==
    [][/\ groups' = groups
       /\ \A i \in DOMAIN groups :
             LET g == groups'[i]
             IN  /\ g.memberNodeIds =
                       [k \in DOMAIN MembersAtParse(g, nodes') |->
                            MembersAtParse(g, nodes')[k].id]
                 /\ g.padding = PaddingAtParse(g, nodes')]_vars

\* After a polish pass a group of several members has a member away from its
\* original position and a container refitted to a box it did not have at first
C22_Witness ==
    /\ lastOp = "polishLayout"
    /\ \E i \in DOMAIN groups :
          /\ Len(groups[i].memberNodeIds) > 1
          /\ \E k \in DOMAIN groups[i].memberNodeIds :
                LET n == GetNode(nodes, groups[i].memberNodeIds[k])
                IN  n.x # n.originalX \/ n.y # n.originalY
          /\ dom[groups[i].outerRect].geom #
                 <<groups[i].originalX, groups[i].originalY,
                   groups[i].originalWidth, groups[i].originalHeight>>

----------------------------------------------------------------------------
(* Edges during a drag and after the polish pass                           *)

\* C23: while dragging (updateNodePosition and applyPositionUpdates(), no
\* polishLayout()), every polyline edge whose parsed path had only
\* axis-aligned segments has only axis-aligned segments: every consecutive
\* point pair differs by less than 1 unit on at least one axis.
C23_OrthogonalWhileDragging ==
    lastOp = "applyPositionUpdates" =>
        \A i \in DOMAIN edges :
            (dom[edges[i].element].tag = "polyline" /\ Orthogonal(parsed[i].points))
                => Orthogonal(edges[i].points)

\* C25: after polishLayout(), the first point of every edge whose source is a
\* tracked node is that node's current center plus the cached source offset,
\* and the last point of every edge whose target is a tracked node is that
\* node's current center plus the cached target offset.
C25_EndpointsKeptByPolish ==
    lastOp = "polishLayout" =>
        \A i \in DOMAIN edges :
            LET e == edges[i]
            IN  /\ (e.sourceNodeId # None /\ HasNode(nodes, e.sourceNodeId)) =>
                       /\ e.sourceOffset # <<>>
                       /\ e.points[1].x = Center(GetNode(nodes, e.sourceNodeId)).x
                                             + e.sourceOffset[1].x
                       /\ e.points[1].y = Center(GetNode(nodes, e.sourceNodeId)).y
                                             + e.sourceOffset[1].y
                /\ (e.targetNodeId # None /\ HasNode(nodes, e.targetNodeId)) =>
                       /\ e.targetOffset # <<>>
                       /\ Last(e.points).x = Center(GetNode(nodes, e.targetNodeId)).x
                                               + e.targetOffset[1].x
                       /\ Last(e.points).y = Center(GetNode(nodes, e.targetNodeId)).y
                                               + e.targetOffset[1].y

\* The bend of a two-point path from a to b: on the vertical through a when the
\* first segment is to be vertical, on the horizontal through a otherwise
BendOf(a, b, verticalFirst) == IF verticalFirst THEN Pt(a.x, b.y) ELSE Pt(b.x, a.y)

DecorationTranslation(e, deco) ==
    LET ep == IF deco.endpoint = "source" THEN e.points[1] ELSE e.points[Len(e.points)]
    IN  ExpectedTranslation(Pt(ep.x + deco.offset.x - deco.anchor.x,
                               ep.y + deco.offset.y - deco.anchor.y))

\* C27: after applyPositionUpdates(), every decoration of every edge with at
\* least 2 points carries the translation (endpoint point + cached offset -
\* original anchor), the endpoint being the first point of the edge for a
\* source decoration and the last for a target decoration; this is the
\* displacement of that endpoint from where it was parsed.
C27_DecorationsFollowEndpoints ==
    AfterApply =>
        \A i \in DOMAIN edges :
            Len(edges[i].points) >= 2 =>
                \A k \in DOMAIN edges[i].decorations :
                    LET deco == edges[i].decorations[k]
                        ep   == IF deco.endpoint = "source" THEN edges[i].points[1]
                                ELSE Last(edges[i].points)
                        ep0  == IF deco.endpoint = "source" THEN parsed[i].points[1]
                                ELSE Last(parsed[i].points)
                    IN  /\ TranslationOf(dom[deco.element]) =
                               DecorationTranslation(edges[i], deco)
                        /\ TranslationOf(dom[deco.element]) =
                               ExpectedTranslation(Pt(ep.x - ep0.x, ep.y - ep0.y))

\* An edge has a decoration at each end; the node at its target has been moved
\* and the move applied, and the target decoration carries a translation
\* while the source decoration carries none
C27_Witness ==
    /\ lastOp = "applyPositionUpdates"
    /\ \E i \in DOMAIN edges :
          /\ Len(edges[i].points) >= 2
          /\ \E k, l \in DOMAIN edges[i].decorations :
                /\ edges[i].decorations[k].endpoint = "source"
                /\ edges[i].decorations[l].endpoint = "target"
                /\ TranslationOf(dom[edges[i].decorations[k].element]) = <<>>
                /\ TranslationOf(dom[edges[i].decorations[l].element]) # <<>>

----------------------------------------------------------------------------
(* Nodes and chrome                                                        *)

\* The edge-label background rectangles and the container and header
\* rectangles of the groups
ChromeRects(d) ==
    {k \in DOMAIN d : d[k].tag = "rect" /\ (isEdgeLabelBackground(d[k]) \/ isGroupChrome(d[k]))}

C28_DragLeavesGroupChrome ==
    [][lastOp' \in {"updateNodePosition", "applyPositionUpdates"} =>
          \A i \in DOMAIN groups : \A el \in Chrome(groups[i]) :
              /\ dom'[el].geom = dom[el].geom
              /\ dom'[el].transform = dom[el].transform]_vars


\* ---------------------------------------------------------------------------
\* One drag at a time
\* ---------------------------------------------------------------------------

\* C29: at most one node is the active dragged node, and a pointer press on a
\* node (mouse or touch) that arrives while a drag is active is ignored: the
\* active node stays the same until its own drag ends.
C29_SecondDragStartIgnored ==
    [][handler.activeNode # None =>
          handler'.activeNode \in {handler.activeNode, None}]_vars


\* ---------------------------------------------------------------------------
\* Endpoints at reconstruction
\* ---------------------------------------------------------------------------

\* The point is nearer to the center of the node than half the larger side of
\* the node plus 30 units (in doubled coordinates)
Reaches(n, p) ==
    LET dx == 2 * p.x - (2 * n.x + n.width)
        dy == 2 * p.y - (2 * n.y + n.height)
        r  == Max(n.width, n.height) + 2 * U(30)
    IN  dx * dx + dy * dy < r * r

Matching(p, ns) == {i \in DOMAIN ns : Reaches(ns[i], p)}

ResolvedAsStated(p, ns, id, offset) ==
    IF Matching(p, ns) = {} THEN id = None
    ELSE LET i == CHOOSE i \in Matching(p, ns) : \A j \in Matching(p, ns) : i <= j
             n == ns[i]
         IN  /\ id = n.id
             /\ offset = <<Pt(p.x - (n.x + n.width \div 2), p.y - (n.y + n.height \div 2))>>

\* C30: createEdge resolves an end of a connector to the first node, in node
\* order, whose center is nearer to the end than half the node's larger side
\* plus 30 units, and to no node exactly when there is no such node; the offset
\* kept for a resolved end is the end minus the center of that node.
C30_EndpointResolution ==
    lastOp = "createEdge" =>
        LET e == edges[1]
            p == Pt(dom[1].geom[1], dom[1].geom[2])
            q == Pt(dom[1].geom[3], dom[1].geom[4])
        IN  /\ ResolvedAsStated(p, nodes, e.sourceNodeId, e.sourceOffset)
            /\ ResolvedAsStated(q, nodes, e.targetNodeId, e.targetOffset)

\* A connector whose start is within reach of both nodes and is resolved to
\* the first of them although the second is nearer, and whose end lies exactly
\* on the rim of the only reach it touches and is left unresolved
C30_Witness ==
    /\ lastOp = "createEdge"
    /\ Cardinality(Matching(Pt(dom[1].geom[1], dom[1].geom[2]), nodes)) = 2
    /\ edges[1].sourceNodeId = nodes[1].id
    /\ Dist2(Pt(dom[1].geom[1], dom[1].geom[2]), Center(nodes[2]))
           < Dist2(Pt(dom[1].geom[1], dom[1].geom[2]), Center(nodes[1]))
    /\ dom[1].geom[3] = U(140) /\ dom[1].geom[4] = U(40)
    /\ Len(nodes) = 2
    /\ Matching(Pt(dom[1].geom[3], dom[1].geom[4]), nodes) = {}
    /\ edges[1].targetNodeId = None


\* ---------------------------------------------------------------------------
\* Saved layouts at initialization
\* ---------------------------------------------------------------------------

\* The positions of the layout stored under the key of the instance, as long
\* as the instance loads layouts; no positions otherwise
SavedAtStart ==
    LET key == generateStorageKey(inst.source, inst.options.storageKeyPrefix)
    IN  IF inst.options.autoSave # "false" /\ key \in DOMAIN storage
        THEN [id \in DOMAIN storage[key].value.f.positions.f |->
                 Pt(storage[key].value.f.positions.f[id].f.x.n,
                    storage[key].value.f.positions.f[id].f.y.n)]
        ELSE <<>>

\* The transform of the element is the one of the document followed by the
\* translation by delta, or the one of the document alone when delta is zero
TranslatedBy(el, inDocument, delta) ==
    IF delta = Pt(0, 0) THEN AttrOrEmpty(el.transform) = AttrOrEmpty(inDocument)
    ELSE el.transform =
             Attr(AttrOrEmpty(inDocument) \o <<TranslateToken(delta.x, delta.y, 1)>>)

\* The ends of the edge that are resolved to a node lie at the center of the
\* node plus the offset kept for the end
EndsFollow(e, ns) ==
    /\ e.sourceNodeId # None =>
           e.points[1] = addPoint(Center(GetNode(ns, e.sourceNodeId)), e.sourceOffset[1])
    /\ e.targetNodeId # None =>
           Last(e.points) = addPoint(Center(GetNode(ns, e.targetNodeId)), e.targetOffset[1])

\* C31: after makeInteractive, with autoSave not false and a layout stored
\* under the key of the source and prefix, every node named in the layout is at
\* its saved position and every other node at its original position; with
\* autoSave false or nothing stored every node is at its original position.
\* The elements of the nodes named in the layout are translated to the saved
\* position and the resolved ends of the edges lie on their nodes.
C31_SavedLayoutRestored ==
    lastOp = "makeInteractive" =>
        /\ \A i \in DOMAIN nodes :
               LET n == nodes[i]
                   fresh == InitialDom(1, 1, 1, 1)
               IN  /\ Pt(n.x, n.y) = IF n.id \in DOMAIN SavedAtStart THEN SavedAtStart[n.id]
                                     ELSE Pt(n.originalX, n.originalY)
                   /\ n.id \in DOMAIN SavedAtStart =>
                          \A j \in DOMAIN n.elements :
                              TranslatedBy(dom[n.elements[j]], fresh[n.elements[j]].transform,
                                           Pt(n.x - n.originalX, n.y - n.originalY))
        /\ \A k \in DOMAIN edges : EndsFollow(edges[k], nodes)

\* An instance made with a layout in the store that names node 2 alone: node 2
\* is at the saved position, its rectangle is translated, and the connector
\* from node 1 ends on it
C31_Witness ==
    /\ lastOp = "makeInteractive"
    /\ DOMAIN SavedAtStart = {2}
    /\ Pt(GetNode(nodes, 2).x, GetNode(nodes, 2).y) = Pt(U(40), U(100))
    /\ GetNode(nodes, 2).originalX = 0
    /\ dom[3].transform = Attr(<<TranslateToken(U(40), 0, 1)>>)
    /\ edges[1].targetNodeId = 2
    /\ Last(edges[1].points) = Pt(U(60), U(100))


\* ---------------------------------------------------------------------------
\* Transforms the document came with
\* ---------------------------------------------------------------------------

\* The label text, label background and decorations of an edge
Affiliated(e) ==
    {el \in {e.labelElement, e.labelBackground} : el # None}
        \cup {e.decorations[k].element : k \in DOMAIN e.decorations}

\* The transform of the element is the one of the document, alone or followed
\* by one translation
KeepsOriginal(el, inDocument) ==
    \/ AttrOrEmpty(el.transform) = AttrOrEmpty(inDocument)
    \/ /\ Len(AttrOrEmpty(el.transform)) = Len(AttrOrEmpty(inDocument)) + 1
       /\ SubSeq(AttrOrEmpty(el.transform), 1, Len(AttrOrEmpty(inDocument)))
              = AttrOrEmpty(inDocument)
       /\ Last(AttrOrEmpty(el.transform)).k = "translate"

\* C32: after applyPositionUpdates(), the first call included, an element of
\* a node that has not moved has the transform it had in the document, an
\* element of a node that has moved has that transform followed by the
\* translation, and labels and decorations keep theirs in the same way.
C32_TransformNeverLost ==
    lastOp = "applyPositionUpdates" =>
        LET fresh == InitialDom(1, 1, 1, 1)
        IN  /\ \A i \in DOMAIN nodes : \A j \in DOMAIN nodes[i].elements :
                   TranslatedBy(dom[nodes[i].elements[j]],
                                fresh[nodes[i].elements[j]].transform,
                                Pt(nodes[i].x - nodes[i].originalX,
                                   nodes[i].y - nodes[i].originalY))
            /\ \A k \in DOMAIN edges : \A el \in Affiliated(edges[k]) :
                   KeepsOriginal(dom[el], fresh[el].transform)


\* ---------------------------------------------------------------------------
\* Reset as a round trip
\* ---------------------------------------------------------------------------

\* C33: whatever moves and applyPositionUpdates() calls came before, with no
\* polishLayout() among them, resetAllPositions() followed by
\* applyPositionUpdates() leaves every edge with the point list parse() gave
\* it and every node element, edge label and decoration without translation.
C33_ResetRoundTrip ==
    [][lastOp = "resetAllPositions" /\ lastOp' = "applyPositionUpdates" =>
          /\ \A k \in DOMAIN edges' : edges'[k].points = parsed[k].points
          /\ \A i \in DOMAIN nodes' : \A j \in DOMAIN nodes'[i].elements :
                 TranslationOf(dom'[nodes'[i].elements[j]]) = <<>>
          /\ \A k \in DOMAIN edges' : \A el \in Affiliated(edges'[k]) :
                 TranslationOf(dom'[el]) = <<>>]_vars


\* ---------------------------------------------------------------------------
\* The polish pass run twice
\* ---------------------------------------------------------------------------

\* C34: a second polishLayout() right after a first one changes nothing: the
\* point lists and routing hints of the edges, the translations of labels and
\* decorations and the boxes of the groups are those the first call left.
C34_PolishIdempotent ==
    [][lastOp = "polishLayout" /\ lastOp' = "polishLayout" =>
          /\ edges' = edges
          /\ dom' = dom]_vars


\* ---------------------------------------------------------------------------
\* Refitted containers
\* ---------------------------------------------------------------------------

\* The box of the node lies in the rectangle <<x, y, width, height>>
BoxInside(n, geom) ==
    /\ geom[1] <= n.x /\ n.x + n.width <= geom[1] + geom[3]
    /\ geom[2] <= n.y /\ n.y + n.height <= geom[2] + geom[4]

\* C35: after polishLayout(), the container of every group that was refitted
\* contains the current box of each of its member nodes.
C35_RefittedContainsMembers ==
    lastOp = "polishLayout" =>
        \A i \in DOMAIN groups :
            LET g == groups[i]
                members == Members(g.memberNodeIds, nodes, 1)
            IN  ~(NoMembers(g, nodes) \/ Degenerate(g, nodes)) =>
                    \A k \in DOMAIN members : BoxInside(members[k], dom[g.outerRect].geom)


\* ---------------------------------------------------------------------------
\* One owner for every element
\* ---------------------------------------------------------------------------

ElementsOf(n) == {n.elements[j] : j \in DOMAIN n.elements}

\* C36: after parse(), no element is among the elements of two nodes, and no
\* element of a node is the label text, the label background or a decoration
\* of an edge.
C36_SingleOwner ==
    /\ \A i \in DOMAIN nodes : \A j \in DOMAIN nodes :
           i # j => ElementsOf(nodes[i]) \cap ElementsOf(nodes[j]) = {}
    /\ \A i \in DOMAIN nodes : \A k \in DOMAIN edges :
           ElementsOf(nodes[i]) \cap Affiliated(edges[k]) = {}


\* ---------------------------------------------------------------------------
\* Identifiers of nodes
\* ---------------------------------------------------------------------------

\* C37: the nodes parse() returns for one document have pairwise distinct
\* identifiers, and the tracker built from them holds as many nodes as the
\* parse result (so that a call addressed to one node reaches that node).
C37_DistinctNodeIds ==
    /\ \A i \in DOMAIN parsed : \A j \in DOMAIN parsed :
           i # j => parsed[i].id # parsed[j].id
    /\ Len(nodes) = Len(parsed)


\* ---------------------------------------------------------------------------
\* Moves outside a drag
\* ---------------------------------------------------------------------------

\* C38: a pointer-move changes the position of a node only if the pointer
\* went down on that node and has not been released since, whatever
\* setEnabled calls came in between.
C38_MovesOnlyWhilePressed ==
    [][lastOp' \in {"updateDrag", "ignored", "unheard"} /\ call'.args[1] = "pointermove" =>
          \A i \in DOMAIN nodes :
              Pt(nodes'[i].x, nodes'[i].y) # Pt(nodes[i].x, nodes[i].y) =>
                  nodes[i].id \in pressed.mouse \cup pressed.touch]_vars


\* ---------------------------------------------------------------------------
\* Clearing the layouts of a prefix
\* ---------------------------------------------------------------------------

\* C39: after clearAllSavedLayouts(prefix) no key generateStorageKey gives
\* for that prefix is left, and every layout saved under another prefix is
\* still in the store and loads as before.
C39_ClearsOnePrefix ==
    [][lastOp' = "clearAllSavedLayouts" =>
          LET prefix == call'.args[1]
          IN  /\ \A src \in Sources :
                     generateStorageKey(src, prefix) \notin DOMAIN storage'
              /\ \A other \in StorePrefixes \ {prefix} : \A src \in Sources :
                     generateStorageKey(src, other) \in DOMAIN storage =>
                         /\ generateStorageKey(src, other) \in DOMAIN storage'
                         /\ loadFromLocalStorage(storage', src, other)
                                = loadFromLocalStorage(storage, src, other)]_vars

====
